---------------------------- MODULE Spec2Model ----------------------------
(***************************************************************************)
(* State-machine model of the autonomous orchestrator                      *)
(* (crates/autonomous_orchestrator): the Decision Engine, the Self-Healing *)
(* Engine, the Resource Engine, the Analytics Engine, the Anomaly Engine   *)
(* and the Event Monitor that feeds three of them.                         *)
(*                                                                         *)
(* Each engine owns its state behind its own lock (state.rs, AppState) and *)
(* no engine reads another engine's state, so a behaviour exercises the    *)
(* calls of one engine, named by the variable `engine`; Init leaves the    *)
(* choice free, so Spec is the union of these behaviours.  Under "monitor" *)
(* the calls are those the dispatch loop of the Event Monitor makes, with  *)
(* the tasks the Self-Healing Engine spawns running beside it; under       *)
(* "analyze_metrics" the scoring function of the Resource Engine is        *)
(* applied on its own.                                                     *)
(*                                                                         *)
(* Further kinds of behaviour have a specification of their own and are    *)
(* not part of Spec: under "training" the Decision Engine is given         *)
(* training data and train_model calls next to routing (SpecTraining);     *)
(* under "performance" it is given performance feedback for two            *)
(* connectors (SpecPerformance); under "get_anomalies",                    *)
(* "get_action_history" and "get_scaling_history" an engine's history is   *)
(* filled and read back (SpecReaders); under "routes" a request of the     *)
(* HTTP API runs as a task beside the dispatch loop, each taking and       *)
(* dropping the locks of AppState (SpecRoutes); under "success_rate" and   *)
(* "fraud" the Anomaly Engine is fed the events that drive one detector    *)
(* (SpecSuccessRate, SpecFraud); under "retry" the retry tasks of the      *)
(* Self-Healing Engine run beside its calls (SpecRetryFair); under         *)
(* "retention" the Analytics Engine is fed events while time passes        *)
(* (SpecRetention); under "mutexes" threads run the operations of the      *)
(* engines side by side, as sequences of mutex acquisitions (SpecMutexes). *)
(*                                                                         *)
(* Conventions.  Option<T> is a sequence: None == <<>>, Some(v) == <<v>>.  *)
(* An f64 is an exact rational <<numerator, denominator>> in lowest terms  *)
(* (denominator > 0), rounding of the last bit not modelled, except in     *)
(* the success-rate detector, whose rates are IEEE-754 doubles computed    *)
(* bit by bit.  A Uuid is the value of a counter, fresh at each            *)
(* Uuid::new_v4().  Wall-clock time is the integer `now`, in seconds,      *)
(* advanced by Tick.  Variables named                                      *)
(* h_... are history variables: they record what was called and returned   *)
(* and are read by the properties only, never by the operations.           *)
(***************************************************************************)
EXTENDS Integers, Sequences, FiniteSets, TLC

\* ------------------------------------------------------------------ bounds
\* Number of Uuid::new_v4() values a behaviour may draw.
MaxUuid == 4
\* Number of update_performance calls in a behaviour.
MaxPerfUpdates == 1
\* Number of ticks of the Event Monitor's ticker in a behaviour.
MaxTicks == 2
\* Number of calls in a behaviour of analyze_metrics on its own.
MaxAnalyzeCalls == 1
\* Length above which add_training_data drains the training buffer; stands
\* for the literal 10000 of decision_engine.rs:291, scaled down so that the
\* drain is reached.
TrainingBufferCap == 3
\* Number of oldest points one drain removes; stands for the literal 1000 of
\* decision_engine.rs:292, scaled down with TrainingBufferCap.
TrainingDrain == 2
\* Number of HTTP requests in a behaviour.
MaxApiCalls == 1
\* Number of threads calling into the engines side by side.
MaxThreads == 2
\* Capacity of the decision cache; stands for the literal 1000 of
\* decision_engine.rs:105, scaled down so that eviction is reached.
DecisionCacheCap == 2
\* Number of evaluate_event calls in a behaviour.
MaxHealingEvents == 3
\* Capacity of the healing-action history; stands for the literal 1000 of
\* self_healing.rs:287, scaled down so that eviction is reached.
ActionHistoryCap == 2
\* The last second the clock reaches.
MaxTime == 3
\* Number of evaluate_scaling calls in a behaviour.
MaxScalingEvals == 3
\* Capacity of the metrics history; stands for the literal 1000 of
\* resource_manager.rs:86, scaled down so that eviction is reached.
MetricsHistoryCap == 2
\* Capacity of the scaling history; stands for the literal 100 of
\* resource_manager.rs:230, scaled down so that eviction is reached.
ScalingHistoryCap == 2
\* Number of process_event calls in a behaviour.
MaxAnalyticsEvents == 3
\* Buffered points predict requires; stands for the literal 100 of
\* analytics.rs:292, scaled down so that a forecast is reached.
MinPredictionPoints == 3
\* Points predict averages; stands for the literal 20 of analytics.rs:299,
\* scaled down with MinPredictionPoints.
PredictionWindow == 2
\* f64::sqrt is rounded down to a multiple of 1/SqrtScale.
SqrtScale == 10
\* Number of analyze_event calls in a behaviour.
MaxAnomalyEvents == 22
\* Number of events in a behaviour that are not the plain payment.
MaxOddEvents == 2
\* Capacity of each rolling window (TimeSeries::max_points); stands for
\* window_size_minutes * 60 of anomaly_detector.rs:113, scaled down so that
\* eviction is reached.
MaxPoints == 21
\* Capacity of the anomaly history; stands for the literal 1000 of
\* anomaly_detector.rs:167, scaled down so that eviction is reached.
AnomalyHistoryCap == 1

\* ------------------------------------------------------------- arithmetic
None == <<>>

Some(v) == <<v>>

IsSome(o) == o # <<>>

Unwrap(o) == o[1]

Min(a, b) == IF a <= b THEN a ELSE b

Max(a, b) == IF a >= b THEN a ELSE b

Abs(a) == IF a < 0 THEN -a ELSE a

RECURSIVE Gcd(_, _)
Gcd(a, b) == IF b = 0 THEN a ELSE Gcd(b, a % b)

\* The rational n/d (d > 0) in lowest terms.
Rat(n, d) ==
    LET g == Gcd(Abs(n), d)
    IN  IF n = 0 THEN <<0, 1>> ELSE <<n \div g, d \div g>>

RatZero == <<0, 1>>

RatOne == <<1, 1>>

RatAdd(x, y) == Rat(x[1] * y[2] + y[1] * x[2], x[2] * y[2])

RatSub(x, y) == Rat(x[1] * y[2] - y[1] * x[2], x[2] * y[2])

RatMul(x, y) == Rat(x[1] * y[1], x[2] * y[2])

\* a/b < c/d for a, c >= 0 and b, d > 0, by continued fractions (no product
\* of two denominators is formed).
RECURSIVE FracLess(_, _, _, _)
FracLess(a, b, c, d) ==
    LET qa == a \div b
        qc == c \div d
        ra == a % b
        rc == c % d
    IN  IF qa # qc THEN qa < qc
        ELSE IF rc = 0 THEN FALSE
        ELSE IF ra = 0 THEN TRUE
        ELSE FracLess(d, rc, b, ra)

RatLess(x, y) == FracLess(x[1], x[2], y[1], y[2])

RatLeq(x, y) == ~RatLess(y, x)

RatMin(x, y) == IF RatLess(y, x) THEN y ELSE x

RatMax(x, y) == IF RatLess(x, y) THEN y ELSE x

\* x / y for y > 0.
RatDiv(x, y) == Rat(x[1] * y[2], x[2] * y[1])

\* The mutant of Disabled: the flag is not looked at.
DisabledNever(enabled) == FALSE

\* `if !self.config.<engine>.enabled { return Ok(..) }`, the first statement
\* of analyze_event, process_event, evaluate_event and evaluate_scaling.
Disabled(enabled) == ~enabled

\* ------------------------------------------------------------------ state
VARIABLES
    engine,             \* the engine whose calls this behaviour exercises
    now,                \* OffsetDateTime::now_utc(), in seconds
    next_uuid,          \* number of Uuids drawn so far
    \* Decision Engine (decision_engine.rs)
    de_config,          \* config.decision_engine
    performance_cache,  \* connector -> ConnectorPerformance
    decision_cache,     \* LruCache<payment id, RoutingDecision>, most recent first
    de_ret,             \* Option of the last make_routing_decision result
    h_de_call,          \* the last Decision Engine call
    h_first_decision,   \* payment id -> Option of the first decision returned for it
    h_evicted,          \* payment ids whose decision the cache has evicted
    h_perf_updates,     \* number of update_performance calls so far
    training_buffer,    \* Vec<TrainingDataPoint>, oldest first
    train_ret,          \* the result of the last train_model
    h_use_order,        \* payment ids routed so far, least recently routed first
    h_observations,     \* the arguments of every update_performance call, in order
    \* Self-Healing Engine (self_healing.rs)
    sh_config,          \* config.self_healing
    connector_failures, \* connector -> FailureTracker
    active_actions,     \* Uuid -> HealingAction
    action_history,     \* VecDeque<HealingAction>, oldest first
    sh_ret,             \* Option of the action the last evaluate_event returned
    h_sh_call,          \* the last Self-Healing call
    h_streak,           \* connector -> failed events since its last succeeded event
    h_sh_events,        \* number of evaluate_event calls so far
    h_completed,        \* every action complete_action moved to the history, in order
    tasks,              \* Uuid of an action -> the task tokio::spawn started for it
    \* Resource Engine (resource_manager.rs)
    rm_config,          \* config.resource_manager
    current_instances,  \* the live instance count
    metrics_history,    \* VecDeque<HealthMetrics>, oldest first
    last_scaling,       \* Option of the time of the last scaling action
    scaling_history,    \* VecDeque<ScalingEvent>, oldest first
    rm_ret,             \* Option of the recommendation the last evaluate_scaling returned
    h_recs,             \* recommendations returned and not yet handed to execute_scaling
    h_rm_call,          \* the last Resource Engine call and its time
    h_last_applied,     \* Option of the time execute_scaling last applied an Up or Down
    h_rm_evals,         \* number of evaluate_scaling calls so far
    h_metrics_log,      \* every sample pushed to metrics_history, in order
    h_scaling_log,      \* every event pushed to scaling_history, in order
    \* Analytics Engine (analytics.rs)
    an_config,          \* config.analytics
    an_metrics,         \* AggregatedMetrics
    connector_stats,    \* connector -> ConnectorMetrics
    payment_method_stats, \* payment method -> PaymentMethodMetrics
    time_series_data,   \* Vec<TimeSeriesPoint>, the forecast buffer
    an_ret,             \* the result of the last Analytics Engine call
    h_an_call,          \* the last Analytics Engine call
    h_an_events,        \* number of process_event calls so far
    h_other_status,     \* an event neither succeeded nor failed was processed
    \* Anomaly Engine (anomaly_detector.rs)
    ad_config,          \* config.anomaly_detection
    payment_volumes,    \* TimeSeries::payment_volumes, oldest first
    success_rates,      \* TimeSeries::success_rates, oldest first
    average_amounts,    \* TimeSeries::average_amounts, oldest first
    anomalies,          \* VecDeque<AnomalyResult>, oldest first
    ad_ret,             \* Option of the result the last analyze_event returned
    h_ad_call,          \* the last Anomaly Engine call and its event
    h_detected,         \* detected_anomalies of the last analyze_event
    h_ad_events,        \* number of analyze_event calls so far
    h_odd_events,       \* number of events so far that were not the plain payment
    h_volume_log,       \* every point pushed to payment_volumes, in order
    h_success_log,      \* every point pushed to success_rates, in order
    h_amount_log,       \* every point pushed to average_amounts, in order
    h_anomaly_log,      \* every result pushed to anomalies, in order
    \* Event Monitor (event_monitor.rs)
    em_config,          \* config.event_monitor
    em_pc,              \* where the task running EventMonitor::start stands
    em_event,           \* Option of sample_event of the running process_events
    em_ret,             \* the result of the last poll_events
    h_ticks,            \* number of ticks of the ticker so far
    h_fanout,           \* the engine calls of the last process_events, in order
    \* History readers
    read_ret,           \* the last get_anomalies / get_action_history /
                        \* get_scaling_history call and what it returned
    \* HTTP API (routes.rs)
    api_pc,             \* the route the request task is in and its next instruction
    api_held,           \* the locks the request task holds, each with its mode
    h_api_calls,        \* number of requests so far
    \* Engine mutexes
    mx_pc,              \* thread -> the operation it is in and its next instruction
    mx_held             \* thread -> the mutexes it holds, in the order taken

deVars == <<de_config, performance_cache, decision_cache, de_ret, h_de_call,
            h_first_decision, h_evicted, h_perf_updates, training_buffer, train_ret,
            h_use_order, h_observations>>

shVars == <<sh_config, connector_failures, active_actions, action_history, sh_ret,
            h_sh_call, h_streak, h_sh_events, h_completed, tasks>>

rmVars == <<rm_config, current_instances, metrics_history, last_scaling,
            scaling_history, rm_ret, h_recs, h_rm_call, h_last_applied, h_rm_evals,
            h_metrics_log, h_scaling_log>>

anVars == <<an_config, an_metrics, connector_stats, payment_method_stats,
            time_series_data, an_ret, h_an_call, h_an_events, h_other_status>>

adVars == <<ad_config, payment_volumes, success_rates, average_amounts, anomalies,
            ad_ret, h_ad_call, h_detected, h_ad_events, h_odd_events, h_volume_log,
            h_success_log, h_amount_log, h_anomaly_log>>

emVars == <<em_config, em_pc, em_event, em_ret, h_ticks, h_fanout>>

apiVars == <<api_pc, api_held, h_api_calls>>

mxVars == <<mx_pc, mx_held>>

vars == <<engine, now, next_uuid, deVars, shVars, rmVars, anVars, adVars, emVars,
          read_ret, apiVars, mxVars>>

Engines == {"decision", "healing", "resource", "analytics", "anomaly", "monitor",
            "analyze_metrics", "training", "get_anomalies", "get_action_history",
            "get_scaling_history", "routes", "success_rate",
            "fraud", "retry", "retention", "performance", "mutexes"}

\* ======================================================== Decision Engine
\* The connector catalog (make_routing_decision).
Connectors == <<"stripe", "adyen", "checkout", "braintree", "worldpay">>

\* Payment ids, amounts and methods of the events routed.
PaymentIds == {"pay_1", "pay_2", "pay_3"}

RouteAmounts == {Some(60000)}

RouteMethods == {None, Some("card")}

\* Connectors, outcomes and latencies reported to update_performance.
PerfConnectors ==
    IF engine \in {"training", "performance"} THEN {"checkout", "paypal"}
    ELSE {"checkout"}

\* update_performance calls in a behaviour: one more where the feedback for
\* two connectors is exercised, two more where the counters are followed.
PerfUpdateLimit ==
    IF engine = "training" THEN MaxPerfUpdates + 1
    ELSE IF engine = "performance" THEN MaxPerfUpdates + 2
    ELSE MaxPerfUpdates

PerfLatencies == IF engine = "performance" THEN {100, 300} ELSE {100}

\* The events routed; one payment id where the training calls are exercised.
RoutePayments ==
    [payment_id : (IF engine \in {"training", "performance"} THEN {"pay_1"}
                   ELSE PaymentIds),
     amount : RouteAmounts, payment_method : RouteMethods]

\* config.decision_engine, the field train_model reads.
DecisionConfigs == [min_training_samples : {0, 2}]

\* Settings::default(), decision_engine.
DefaultDecisionConfig == [min_training_samples |-> 1000]

\* Labels of the points given to add_training_data.
TrainingLabels == {1}

\* ConnectorPerformance::success_rate
success_rate(perf) ==
    IF perf.total_transactions = 0 THEN RatZero
    ELSE Rat(perf.success_count, perf.total_transactions)

\* ConnectorPerformance::avg_latency_ms
avg_latency_ms(perf) ==
    IF perf.total_transactions = 0 THEN RatZero
    ELSE Rat(perf.total_latency_ms, perf.total_transactions)

\* The mutant of SeededPrior: a connector without entry has empty counters.
EmptyCounters(connector) ==
    [connector |-> connector, success_count |-> 0, failure_count |-> 0,
     total_latency_ms |-> 0, total_transactions |-> 0]

\* The prior score_connector uses for a connector with no recorded entry.
SeededPrior(connector) ==
    [connector |-> connector, success_count |-> 80, failure_count |-> 20,
     total_latency_ms |-> 50000, total_transactions |-> 100]

\* performance_cache.get(connector).cloned().unwrap_or_else(prior)
PerfOrPrior(cache, connector) ==
    IF connector \in DOMAIN cache THEN cache[connector] ELSE SeededPrior(connector)

\* DecisionEngine::apply_payment_adjustments
apply_payment_adjustments(base_score, connector, payment) ==
    LET s1 == IF /\ IsSome(payment.amount)
                 /\ Unwrap(payment.amount) > 50000
                 /\ connector = "stripe"
              THEN RatMul(base_score, <<11, 10>>) ELSE base_score
        s2 == IF /\ IsSome(payment.payment_method)
                 /\ Unwrap(payment.payment_method) = "card"
                 /\ connector \in {"stripe", "adyen"}
              THEN RatMul(s1, <<21, 20>>) ELSE s1
    IN  RatMin(s2, RatOne)

\* DecisionEngine::score_connector
score_connector(cache, connector, payment) ==
    LET perf == PerfOrPrior(cache, connector)
        sr == success_rate(perf)
        avg == avg_latency_ms(perf)
        latency_score == RatSub(RatOne, RatMin(RatMul(avg, <<1, 1000>>), RatOne))
        score == RatAdd(RatMul(sr, <<7, 10>>), RatMul(latency_score, <<3, 10>>))
    IN  [connector |-> connector,
         score |-> apply_payment_adjustments(score, connector, payment),
         expected_success_rate |-> sr,
         expected_latency_ms |-> avg[1] \div avg[2]]

\* One step of the stable descending sort: x goes after every element whose
\* score is not less than its own.
InsertByScoreDesc(sorted, x) ==
    LET keep == {i \in 1..Len(sorted) : RatLeq(x.score, sorted[i].score)}
        k == IF keep = {} THEN 0 ELSE CHOOSE i \in keep : \A j \in keep : j <= i
    IN  SubSeq(sorted, 1, k) \o <<x>> \o SubSeq(sorted, k + 1, Len(sorted))

\* The mutant of SortByScoreDesc: the scores stay in catalog order.
ScoresInCatalogOrder(scores) == scores

\* scores.sort_by(|a, b| b.score.partial_cmp(&a.score)...): stable, descending.
RECURSIVE SortByScoreDesc(_)
SortByScoreDesc(scores) ==
    IF scores = <<>> THEN <<>>
    ELSE InsertByScoreDesc(SortByScoreDesc(SubSeq(scores, 1, Len(scores) - 1)),
                           scores[Len(scores)])

\* The scores of the whole catalog, ranked.
RankedScores(cache, payment) ==
    SortByScoreDesc([i \in 1..Len(Connectors) |->
                        score_connector(cache, Connectors[i], payment)])

\* The RoutingDecision built on a cache miss.
NewDecision(id, cache, payment) ==
    LET scores == RankedScores(cache, payment)
    IN  [id |-> id,
         payment_id |-> payment.payment_id,
         recommended_connector |-> scores[1].connector,
         confidence |-> scores[1].score,
         alternatives |-> SubSeq(scores, 2, Len(scores))]

\* Index of `key` in the LRU cache, 0 when absent.
LruIndex(cache, key) ==
    IF \E i \in 1..Len(cache) : cache[i].key = key
    THEN CHOOSE i \in 1..Len(cache) : cache[i].key = key
    ELSE 0

LruKeys(cache) == {cache[i].key : i \in 1..Len(cache)}

\* The cache without its i-th entry.
LruRemoveAt(cache, i) == SubSeq(cache, 1, i - 1) \o SubSeq(cache, i + 1, Len(cache))

\* The mutant of LruPeek: the cache is never consulted.
LruPeekAlwaysMiss(cache, key) == None

\* LruCache::get, the value: Option of the entry stored under `key`.
LruPeek(cache, key) ==
    IF LruIndex(cache, key) = 0 THEN None ELSE Some(cache[LruIndex(cache, key)].value)

\* The mutant of LruTouch: a hit leaves the recency order alone.
LruTouchKeepsOrder(cache, key) == cache

\* LruCache::get, the recency: a hit moves the entry to the most recent place.
LruTouch(cache, key) ==
    LET i == LruIndex(cache, key)
    IN  IF i = 0 THEN cache ELSE <<cache[i]>> \o LruRemoveAt(cache, i)

\* LruCache::put: replaces the value of a present key, otherwise evicts the
\* least recently used entry of a full cache; the entry becomes most recent.
LruPut(cache, key, value, cap) ==
    LET i == LruIndex(cache, key)
        rest == IF i # 0 THEN LruRemoveAt(cache, i)
                ELSE IF Len(cache) >= cap THEN SubSeq(cache, 1, cap - 1)
                ELSE cache
    IN  <<[key |-> key, value |-> value]>> \o rest

\* DecisionEngine::make_routing_decision
make_routing_decision(payment) ==
    LET cached == LruPeek(decision_cache, payment.payment_id)
        decision == NewDecision(next_uuid + 1, performance_cache, payment)
        after == LruPut(decision_cache, payment.payment_id, decision, DecisionCacheCap)
    IN  /\ IF IsSome(cached)
           THEN /\ decision_cache' = LruTouch(decision_cache, payment.payment_id)
                /\ de_ret' = cached
                /\ UNCHANGED <<next_uuid, h_evicted>>
           ELSE /\ next_uuid < MaxUuid
                /\ next_uuid' = next_uuid + 1
                /\ decision_cache' = after
                /\ de_ret' = Some(decision)
                /\ h_evicted' = h_evicted \cup (LruKeys(decision_cache) \ LruKeys(after))
        /\ h_first_decision' =
              IF IsSome(h_first_decision[payment.payment_id]) THEN h_first_decision
              ELSE [h_first_decision EXCEPT ![payment.payment_id] = de_ret']
        /\ h_de_call' = [op |-> "make_routing_decision", payment |-> Some(payment)]
        /\ h_use_order' =
              Append(SelectSeq(h_use_order, LAMBDA id : id # payment.payment_id),
                     payment.payment_id)
        /\ UNCHANGED <<de_config, performance_cache, h_perf_updates, training_buffer,
                       train_ret, h_observations>>
        /\ UNCHANGED <<shVars, rmVars, anVars, adVars>>

\* The mutant of Observed: the latency of the call replaces the total.
ObservedLatencyOnly(perf, success, latency_ms) ==
    [perf EXCEPT
       !.success_count = IF success THEN @ + 1 ELSE @,
       !.failure_count = IF success THEN @ ELSE @ + 1,
       !.total_latency_ms = latency_ms,
       !.total_transactions = @ + 1]

\* update_performance on the entry of the connector: one of the two counts,
\* the latency total and the transaction count go up.
Observed(perf, success, latency_ms) ==
    [perf EXCEPT
       !.success_count = IF success THEN @ + 1 ELSE @,
       !.failure_count = IF success THEN @ ELSE @ + 1,
       !.total_latency_ms = @ + latency_ms,
       !.total_transactions = @ + 1]

\* The mutant of Recorded: the entry written is the only one kept.
RecordedAlone(cache, connector, perf) == [c \in {connector} |-> perf]

\* cache.entry(connector): the entry of the connector is written, the others stay.
Recorded(cache, connector, perf) ==
    [c \in DOMAIN cache \cup {connector} |->
        IF c = connector THEN perf ELSE cache[c]]

\* DecisionEngine::update_performance
update_performance(connector, success, latency_ms) ==
    LET old == IF connector \in DOMAIN performance_cache
               THEN performance_cache[connector]
               ELSE [connector |-> connector, success_count |-> 0, failure_count |-> 0,
                     total_latency_ms |-> 0, total_transactions |-> 0]
        new == Observed(old, success, latency_ms)
    IN  /\ h_perf_updates < PerfUpdateLimit
        /\ h_perf_updates' = h_perf_updates + 1
        /\ performance_cache' = Recorded(performance_cache, connector, new)
        /\ h_de_call' = [op |-> "update_performance", payment |-> None]
        /\ UNCHANGED <<decision_cache, de_ret, next_uuid, h_first_decision, h_evicted>>
        /\ h_observations' =
              Append(h_observations,
                     [connector |-> connector, success |-> success,
                      latency_ms |-> latency_ms])
        /\ UNCHANGED <<de_config, training_buffer, train_ret, h_use_order>>
        /\ UNCHANGED <<shVars, rmVars, anVars, adVars>>

\* The mutant of TooFewSamples: a buffer of exactly the minimum is refused.
TooFewSamplesAtMinimum(have, min_training_samples) == have <= min_training_samples

\* train_model: buffer.len() < min_training_samples
TooFewSamples(have, min_training_samples) == have < min_training_samples

\* DecisionEngine::train_model
train_model ==
    /\ train_ret' =
          IF TooFewSamples(Len(training_buffer), de_config.min_training_samples)
          THEN [kind |-> "Err", error |-> "InsufficientData",
                need |-> de_config.min_training_samples,
                have |-> Len(training_buffer)]
          ELSE [kind |-> "Ok"]
    /\ h_de_call' = [op |-> "train_model", payment |-> None]
    /\ UNCHANGED <<de_config, performance_cache, decision_cache, de_ret,
                   h_first_decision, h_evicted, h_perf_updates, training_buffer,
                   h_use_order, h_observations, next_uuid>>
    /\ UNCHANGED <<shVars, rmVars, anVars, adVars>>

\* add_training_data: buffer.drain(0..1000) once the buffer exceeds 10000.
DrainOldest(buffer) ==
    IF Len(buffer) > TrainingBufferCap
    THEN SubSeq(buffer, TrainingDrain + 1, Len(buffer))
    ELSE buffer

\* DecisionEngine::add_training_data
add_training_data(features, label) ==
    /\ training_buffer' =
          DrainOldest(Append(training_buffer,
                             [features |-> features, label |-> label,
                              timestamp |-> now]))
    /\ h_de_call' = [op |-> "add_training_data", payment |-> None]
    /\ UNCHANGED <<de_config, performance_cache, decision_cache, de_ret,
                   h_first_decision, h_evicted, h_perf_updates, train_ret,
                   h_use_order, h_observations, next_uuid>>
    /\ UNCHANGED <<shVars, rmVars, anVars, adVars>>

InitDecision ==
    /\ de_config \in (IF engine = "training" THEN DecisionConfigs
                      ELSE {DefaultDecisionConfig})
    /\ training_buffer = << >>
    /\ train_ret = [kind |-> "none"]
    /\ h_use_order = << >>
    /\ h_observations = << >>
    /\ performance_cache = << >>
    /\ decision_cache = << >>
    /\ de_ret = None
    /\ h_de_call = [op |-> "none", payment |-> None]
    /\ h_first_decision = [p \in PaymentIds |-> None]
    /\ h_evicted = {}
    /\ h_perf_updates = 0

MakeRoutingDecision ==
    /\ \E payment \in RoutePayments : make_routing_decision(payment)
    /\ UNCHANGED <<mxVars, apiVars, read_ret, engine, now, emVars>>

UpdatePerformance ==
    /\ \E connector \in PerfConnectors, success \in BOOLEAN, latency_ms \in PerfLatencies :
          update_performance(connector, success, latency_ms)
    /\ UNCHANGED <<mxVars, apiVars, read_ret, engine, now, emVars>>

NextDecision == MakeRoutingDecision \/ UpdatePerformance

TrainModel ==
    /\ train_model
    /\ UNCHANGED <<mxVars, apiVars, read_ret, engine, now, emVars>>

AddTrainingData ==
    /\ \E label \in TrainingLabels : add_training_data(<<label>>, label)
    /\ UNCHANGED <<mxVars, apiVars, read_ret, engine, now, emVars>>

\* The calls of routes.rs and of the feedback path on one engine: training
\* next to routing and performance updates.
NextTraining ==
    MakeRoutingDecision \/ UpdatePerformance \/ TrainModel \/ AddTrainingData

\* Routing next to the performance feedback that it reads.
NextPerformance == MakeRoutingDecision \/ UpdatePerformance

\* The payment of the last call, when that call was make_routing_decision.
RoutedPayment == Unwrap(h_de_call.payment)

\* C1 as stated: every make_routing_decision call for a payment id returns
\* the decision that the first call for that payment id returned.
C1_EveryCallReturnsFirstDecision ==
    h_de_call.op = "make_routing_decision" =>
        de_ret = h_first_decision[RoutedPayment.payment_id]

\* C1, amended: a make_routing_decision call for a payment id whose decision
\* the cache has not evicted since it was first routed returns the decision
\* of the first call (same id, connector, confidence and alternatives),
\* whatever update_performance did in between.
C1_CachedDecisionIsReturned ==
    (/\ h_de_call.op = "make_routing_decision"
     /\ RoutedPayment.payment_id \notin h_evicted) =>
        de_ret = h_first_decision[RoutedPayment.payment_id]

\* C1's case: a call returned the first decision of its payment id although
\* scoring the same payment now would recommend another connector.
C1_Witness ==
    /\ h_de_call.op = "make_routing_decision"
    /\ RoutedPayment.payment_id \notin h_evicted
    /\ de_ret = h_first_decision[RoutedPayment.payment_id]
    /\ Unwrap(de_ret).recommended_connector #
          RankedScores(performance_cache, RoutedPayment)[1].connector

\* ===================================================== Self-Healing Engine
\* The configurations of config.self_healing the engine is built with.
HealingConfigs ==
    [enabled : BOOLEAN, auto_switch_connectors : BOOLEAN, failure_threshold : {1, 2},
     max_retry_attempts : {2}, initial_retry_delay_seconds : {2},
     retry_backoff_multiplier : {Rat(2, 1)}]

\* Settings::default(), self_healing.
DefaultHealingConfig ==
    [enabled |-> TRUE, auto_switch_connectors |-> TRUE, failure_threshold |-> 5,
     max_retry_attempts |-> 3, initial_retry_delay_seconds |-> 2,
     retry_backoff_multiplier |-> Rat(2, 1)]

\* The configurations under the Event Monitor: Settings::default(), and the
\* same with a failure threshold of 1.
MonitorHealingConfigs ==
    {[DefaultHealingConfig EXCEPT !.failure_threshold = t] : t \in {1, 5}}

\* The configurations where the retry task is followed: one and three
\* attempts, a multiplier that leaves a fraction of a second and one that
\* does not.
RetryConfigs ==
    {[DefaultHealingConfig EXCEPT !.max_retry_attempts = attempts,
                                  !.initial_retry_delay_seconds = 3,
                                  !.retry_backoff_multiplier = backoff] :
        attempts \in {1, 3}, backoff \in {Rat(3, 2), Rat(2, 1)}}

\* The number of events that launch a retry where the retry task is followed.
RetryEventLimit == MaxHealingEvents - 1

\* The events evaluate_event is given.
HealingConnectors == {"stripe", "adyen"}

\* The error codes of a failed event: the three should_retry_payment names
\* and one it does not name.
ErrorCodes == {"invalid_card", "expired_card", "insufficient_funds", "card_declined"}

\* Only a failed event carries an error code.
HealingEvents ==
    {event \in [payment_id : {"pay_1"},
                status : {"succeeded", "failed", "processing"},
                connector : {None} \cup {Some(c) : c \in HealingConnectors},
                error_code : {None} \cup {Some(c) : c \in ErrorCodes}] :
        event.status = "failed" \/ event.error_code = None}

\* The arguments complete_action is given.
CompletionStatuses == {"Success", "Failed"}

\* The mutant of FailureThresholdReached: the threshold must be exceeded.
FailureThresholdExceeded(consecutive_failures, failure_threshold) ==
    consecutive_failures > failure_threshold

\* track_failure's test, self_healing.rs:122.
FailureThresholdReached(consecutive_failures, failure_threshold) ==
    consecutive_failures >= failure_threshold

\* The mutant of Counted: the failure enters the total only.
CountedInTotalOnly(tracker, at) ==
    [tracker EXCEPT !.total_failures = @ + 1, !.last_failure = at]

\* track_failure's three assignments, self_healing.rs:118-120.
Counted(tracker, at) ==
    [tracker EXCEPT !.consecutive_failures = @ + 1,
                    !.total_failures = @ + 1,
                    !.last_failure = at]

\* SelfHealingService::track_failure
track_failure(failures, connector, threshold) ==
    LET old == IF connector \in DOMAIN failures THEN failures[connector]
               ELSE [connector |-> connector, consecutive_failures |-> 0,
                     total_failures |-> 0, last_failure |-> now, is_failed |-> FALSE]
        counted == Counted(old, now)
        new == IF FailureThresholdReached(counted.consecutive_failures, threshold)
               THEN [counted EXCEPT !.is_failed = TRUE] ELSE counted
    IN  [c \in DOMAIN failures \cup {connector} |->
            IF c = connector THEN new ELSE failures[c]]

\* The mutant of ResetTracker: the failed flag is left as it is.
ResetTrackerKeepsFlag(tracker) == [tracker EXCEPT !.consecutive_failures = 0]

\* What reset_failure_tracking does to the tracker it finds.
ResetTracker(tracker) ==
    [tracker EXCEPT !.consecutive_failures = 0, !.is_failed = FALSE]

\* SelfHealingService::reset_failure_tracking
reset_failure_tracking(failures, connector) ==
    IF connector \in DOMAIN failures
    THEN [failures EXCEPT ![connector] = ResetTracker(@)]
    ELSE failures

\* SelfHealingService::should_heal_connector
should_heal_connector(failures, connector) ==
    IF connector \in DOMAIN failures
    THEN failures[connector].is_failed /\ sh_config.auto_switch_connectors
    ELSE FALSE

\* The mutant of should_retry_payment: every failed payment is retried.
ShouldRetryAnyPayment(event) == TRUE

\* SelfHealingService::should_retry_payment
should_retry_payment(event) ==
    IF IsSome(event.error_code)
    THEN Unwrap(event.error_code) \notin {"invalid_card", "expired_card", "insufficient_funds"}
    ELSE TRUE

\* The Pending action heal_connector_failure and retry_payment create.
NewHealingAction(id, action_type, event) ==
    [id |-> id, action_type |-> action_type, target |-> event.payment_id,
     status |-> "Pending", result_message |-> None]

\* The mutant of InsertAction: the action is returned without being stored.
InsertActionNowhere(active, action) == active

\* active.insert(action.id, action)
InsertAction(active, action) ==
    [i \in DOMAIN active \cup {action.id} |->
        IF i = action.id THEN action ELSE active[i]]

\* The mutant of SpawnedTask: the task has run to its end when the call
\* returns.
SpawnedTaskAwaited(action_type) ==
    IF action_type = "SwitchConnector"
    THEN [kind |-> "switch", attempt |-> 0, delay |-> 0, state |-> "switched"]
    ELSE [kind |-> "retry", attempt |-> 1,
          delay |-> sh_config.initial_retry_delay_seconds, state |-> "exhausted"]

\* The task tokio::spawn starts, before its first poll: the switch task of
\* heal_connector_failure (self_healing.rs:188) or the retry task of
\* retry_payment (self_healing.rs:239) with its delay and the attempt it is
\* about to make.  The task holds action_id and no handle on the engine.
SpawnedTask(action_type) ==
    IF action_type = "SwitchConnector"
    THEN [kind |-> "switch", attempt |-> 0, delay |-> 0, state |-> "running"]
    ELSE [kind |-> "retry", attempt |-> 1,
          delay |-> sh_config.initial_retry_delay_seconds, state |-> "running"]

\* heal_connector_failure and retry_payment: the action is stored in the
\* active map, the task is spawned and the action is returned.
LaunchAction(action_type, event) ==
    LET action == NewHealingAction(next_uuid + 1, action_type, event)
    IN  /\ next_uuid < MaxUuid
        /\ next_uuid' = next_uuid + 1
        /\ active_actions' = InsertAction(active_actions, action)
        /\ tasks' = [i \in DOMAIN tasks \cup {action.id} |->
                        IF i = action.id THEN SpawnedTask(action_type) ELSE tasks[i]]
        /\ sh_ret' = Some(action)

\* SelfHealingService::evaluate_event
evaluate_event(event) ==
    LET tracked == IF IsSome(event.connector)
                   THEN track_failure(connector_failures, Unwrap(event.connector),
                                      sh_config.failure_threshold)
                   ELSE connector_failures
    IN  /\ h_sh_events' = h_sh_events + 1
        /\ h_sh_call' = [op |-> "evaluate_event", event |-> Some(event)]
        /\ h_streak' =
              IF IsSome(event.connector) /\ event.status = "failed"
              THEN [h_streak EXCEPT ![Unwrap(event.connector)] = @ + 1]
              ELSE IF IsSome(event.connector) /\ event.status = "succeeded"
              THEN [h_streak EXCEPT ![Unwrap(event.connector)] = 0]
              ELSE h_streak
        /\ IF Disabled(sh_config.enabled)
           THEN /\ sh_ret' = None
                /\ UNCHANGED <<connector_failures, active_actions, tasks, next_uuid>>
           ELSE IF event.status = "failed"
           THEN /\ connector_failures' = tracked
                /\ IF /\ IsSome(event.connector)
                      /\ should_heal_connector(tracked, Unwrap(event.connector))
                   THEN LaunchAction("SwitchConnector", event)
                   ELSE IF should_retry_payment(event)
                   THEN LaunchAction("RetryPayment", event)
                   ELSE /\ sh_ret' = None
                        /\ UNCHANGED <<active_actions, tasks, next_uuid>>
           ELSE IF event.status = "succeeded"
           THEN /\ connector_failures' =
                      IF IsSome(event.connector)
                      THEN reset_failure_tracking(connector_failures, Unwrap(event.connector))
                      ELSE connector_failures
                /\ sh_ret' = None
                /\ UNCHANGED <<active_actions, tasks, next_uuid>>
           ELSE /\ sh_ret' = None
                /\ UNCHANGED <<connector_failures, active_actions, tasks, next_uuid>>
        /\ UNCHANGED <<sh_config, action_history, h_completed>>
        /\ UNCHANGED <<deVars, rmVars, anVars, adVars>>

\* The mutant of RingPush: nothing is evicted.
RingPushNoEviction(ring, item, cap) == Append(ring, item)

\* if len >= cap { pop_front } push_back: the insertion into a bounded ring.
RingPush(ring, item, cap) ==
    IF Len(ring) >= cap THEN Append(Tail(ring), item) ELSE Append(ring, item)

\* The mutant of Completed: the action keeps the status it had.
CompletedKeepsStatus(action, status, result) ==
    [action EXCEPT !.result_message = Some(result)]

\* action.status = status; action.result_message = Some(result)
Completed(action, status, result) ==
    [action EXCEPT !.status = status, !.result_message = Some(result)]

\* SelfHealingService::complete_action
complete_action(action_id, status, result) ==
    LET done == Completed(active_actions[action_id], status, result)
    IN  /\ h_sh_call' = [op |-> "complete_action", event |-> None,
                         action_id |-> action_id, status |-> status, result |-> result]
        /\ IF action_id \in DOMAIN active_actions
           THEN /\ active_actions' =
                      [i \in DOMAIN active_actions \ {action_id} |-> active_actions[i]]
                /\ action_history' = RingPush(action_history, done, ActionHistoryCap)
                /\ h_completed' = Append(h_completed, done)
           ELSE UNCHANGED <<active_actions, action_history, h_completed>>
        /\ UNCHANGED <<sh_config, connector_failures, sh_ret, h_streak, h_sh_events,
                       tasks, next_uuid>>
        /\ UNCHANGED <<deVars, rmVars, anVars, adVars>>

InitHealing ==
    /\ sh_config \in (IF engine = "healing" THEN HealingConfigs
                      ELSE IF engine = "monitor" THEN MonitorHealingConfigs
                      ELSE IF engine = "retry" THEN RetryConfigs
                      ELSE {DefaultHealingConfig})
    /\ connector_failures = << >>
    /\ active_actions = << >>
    /\ action_history = << >>
    /\ sh_ret = None
    /\ h_sh_call = [op |-> "none", event |-> None]
    /\ h_streak = [c \in HealingConnectors |-> 0]
    /\ h_sh_events = 0
    /\ h_completed = << >>
    /\ tasks = << >>

\* The events evaluate_event is given; where the history reader is
\* exercised, declined payments only, each of which launches an action.
EventsEvaluated ==
    IF engine = "get_action_history"
    THEN {event \in HealingEvents :
             /\ event.status = "failed"
             /\ event.connector = None
             /\ event.error_code = Some("card_declined")}
    ELSE IF engine = "retry"
    THEN {event \in HealingEvents :
             /\ h_sh_events < RetryEventLimit
             /\ event.status = "failed"
             /\ event.connector = None
             /\ event.error_code = Some("card_declined")}
    ELSE HealingEvents

EvaluateEvent ==
    /\ h_sh_events < MaxHealingEvents
    /\ \E event \in EventsEvaluated : evaluate_event(event)
    /\ UNCHANGED <<mxVars, apiVars, read_ret, engine, now, emVars>>

\* The ids complete_action is given: those drawn so far, active or
\* completed, and one that was never drawn.
CompletionIds == 1..(next_uuid + 1)

\* The completions given; where the retry task is followed, those of an
\* active action as a success.
Completions ==
    IF engine = "retry" THEN (DOMAIN active_actions) \X {"Success"}
    ELSE CompletionIds \X CompletionStatuses

CompleteAction ==
    /\ \E completion \in Completions :
          complete_action(completion[1], completion[2], "done")
    /\ UNCHANGED <<mxVars, apiVars, read_ret, engine, now, emVars>>

\* The mutant of NextDelay: the delay is not multiplied.
NextDelayKept(delay, backoff) == delay

\* delay = (delay as f64 * backoff) as u64
NextDelay(delay, backoff) == (delay * backoff[1]) \div backoff[2]

\* One turn of the loop of the retry task, self_healing.rs:249-270: the sleep
\* ends, the retry succeeds or not (rand::random::<f64>() > 0.5); success
\* breaks the loop, the last failed attempt ends it, and with either the
\* task is over.  It touches neither the active map nor the history.
retry_task(action_id, success) ==
    LET task == tasks[action_id]
        over == IF task.attempt > sh_config.max_retry_attempts THEN "exhausted"
                ELSE IF success THEN "succeeded"
                ELSE IF task.attempt = sh_config.max_retry_attempts THEN "exhausted"
                ELSE "running"
    IN  /\ tasks' = [tasks EXCEPT ![action_id] =
                        IF over = "running"
                        THEN [@ EXCEPT !.attempt = @ + 1,
                                       !.delay = NextDelay(@, sh_config.retry_backoff_multiplier)]
                        ELSE [@ EXCEPT !.state = over]]
        /\ UNCHANGED <<sh_config, connector_failures, active_actions, action_history,
                       sh_ret, h_sh_call, h_streak, h_sh_events, h_completed,
                       next_uuid>>
        /\ UNCHANGED <<deVars, rmVars, anVars, adVars>>

\* The switch task, self_healing.rs:192-209: the sleep of 500 ms ends and the
\* task is over.  It touches neither the active map nor the history.
switch_task(action_id) ==
    /\ tasks' = [tasks EXCEPT ![action_id].state = "switched"]
    /\ UNCHANGED <<sh_config, connector_failures, active_actions, action_history,
                   sh_ret, h_sh_call, h_streak, h_sh_events, h_completed, next_uuid>>
    /\ UNCHANGED <<deVars, rmVars, anVars, adVars>>

\* The tasks that are not over.
RunningTasks(kind) ==
    {id \in DOMAIN tasks : tasks[id].kind = kind /\ tasks[id].state = "running"}

RetryTask ==
    /\ \E action_id \in RunningTasks("retry"), success \in BOOLEAN :
          retry_task(action_id, success)
    /\ UNCHANGED <<mxVars, apiVars, read_ret, engine, now, emVars>>

SwitchTask ==
    /\ \E action_id \in RunningTasks("switch") : switch_task(action_id)
    /\ UNCHANGED <<mxVars, apiVars, read_ret, engine, now, emVars>>

\* The calls of the Self-Healing Engine.  The spawned tasks are steps of the
\* runtime, not of the engine, and hold no handle on it: they run under the
\* Event Monitor, whose evaluate_event calls spawn them in the program.
NextHealing == EvaluateEvent \/ CompleteAction

\* The engine with the retry tasks it spawns running beside its calls.
NextRetry == EvaluateEvent \/ CompleteAction \/ RetryTask

\* The event of the last call, when that call was evaluate_event.
EvaluatedEvent == Unwrap(h_sh_call.event)

\* The consecutive-failure count and the failed flag of a connector; a
\* connector without a tracker has no failure on record.
ConsecutiveFailures(failures, connector) ==
    IF connector \in DOMAIN failures THEN failures[connector].consecutive_failures ELSE 0

IsFailed(failures, connector) ==
    IF connector \in DOMAIN failures THEN failures[connector].is_failed ELSE FALSE

ReturnedActionType == IF IsSome(sh_ret) THEN Unwrap(sh_ret).action_type ELSE "none"

\* C2: with self-healing and auto-switch enabled, the failure_threshold-th
\* failed event of a connector's streak returns a SwitchConnector action, and
\* an earlier failed event of the streak returns none.
C2_SwitchOnThresholdEvent ==
    (/\ h_sh_call.op = "evaluate_event"
     /\ sh_config.enabled /\ sh_config.auto_switch_connectors
     /\ EvaluatedEvent.status = "failed"
     /\ IsSome(EvaluatedEvent.connector)) =>
        LET streak == h_streak[Unwrap(EvaluatedEvent.connector)]
        IN  /\ streak = sh_config.failure_threshold =>
                ReturnedActionType = "SwitchConnector"
            /\ streak < sh_config.failure_threshold =>
                ReturnedActionType # "SwitchConnector"

\* C2's case: the second failed event in a row, under a threshold of 2, has
\* just returned a SwitchConnector action.
C2_Witness ==
    /\ h_sh_call.op = "evaluate_event"
    /\ sh_config.enabled /\ sh_config.auto_switch_connectors
    /\ sh_config.failure_threshold = 2
    /\ EvaluatedEvent.status = "failed"
    /\ IsSome(EvaluatedEvent.connector)
    /\ h_streak[Unwrap(EvaluatedEvent.connector)] = 2
    /\ ReturnedActionType = "SwitchConnector"

\* C3: an evaluate_event call on a succeeded event for a connector leaves that
\* connector with a consecutive-failure count of 0 and its failed flag clear,
\* and leaves every other connector's tracker as it was.
C3_SuccessResetsConnector ==
    [][(/\ h_sh_call'.op = "evaluate_event"
        /\ Unwrap(h_sh_call'.event).status = "succeeded"
        /\ IsSome(Unwrap(h_sh_call'.event).connector)) =>
          LET c == Unwrap(Unwrap(h_sh_call'.event).connector)
          IN  /\ ConsecutiveFailures(connector_failures', c) = 0
              /\ ~IsFailed(connector_failures', c)
              /\ DOMAIN connector_failures' = DOMAIN connector_failures
              /\ \A d \in DOMAIN connector_failures \ {c} :
                    connector_failures'[d] = connector_failures[d]]_vars

\* C3's case: a succeeded event has just returned a connector that had reached
\* the failure threshold to a count of 0 and a clear flag.
C3_Witness ==
    /\ h_sh_call.op = "evaluate_event"
    /\ sh_config.enabled
    /\ EvaluatedEvent.status = "succeeded"
    /\ IsSome(EvaluatedEvent.connector)
    /\ LET c == Unwrap(EvaluatedEvent.connector)
       IN  /\ c \in DOMAIN connector_failures
           /\ connector_failures[c].total_failures >= sh_config.failure_threshold
           /\ connector_failures[c].consecutive_failures = 0
           /\ ~connector_failures[c].is_failed
           /\ \E d \in DOMAIN connector_failures : d # c /\ connector_failures[d].is_failed

\* ========================================================= Resource Engine
\* The configurations of config.resource_manager the engine is built with:
\* the thresholds of Settings::default(), min_instances <= max_instances.
ResourceConfigs ==
    [enable_auto_scaling : BOOLEAN,
     cpu_scale_up_threshold : {75}, cpu_scale_down_threshold : {30},
     memory_scale_up_threshold : {80}, memory_scale_down_threshold : {40},
     min_instances : {1}, max_instances : {2, 3},
     scale_cooldown_seconds : {2}]

\* Settings::default(), resource_manager.
DefaultResourceConfig ==
    [enable_auto_scaling |-> TRUE,
     cpu_scale_up_threshold |-> 75, cpu_scale_down_threshold |-> 30,
     memory_scale_up_threshold |-> 80, memory_scale_down_threshold |-> 40,
     min_instances |-> 1, max_instances |-> 10,
     scale_cooldown_seconds |-> 300]

\* The health samples evaluate_scaling is given: a loaded fleet, an idle
\* fleet and a fleet within all thresholds.
MetricSamples ==
    {[cpu_usage |-> 90, memory_usage |-> 50, request_rate |-> 500,
      error_rate |-> 1, queue_depth |-> 10],
     [cpu_usage |-> 10, memory_usage |-> 20, request_rate |-> 500,
      error_rate |-> 1, queue_depth |-> 10],
     [cpu_usage |-> 50, memory_usage |-> 50, request_rate |-> 500,
      error_rate |-> 1, queue_depth |-> 10]}

\* The health samples analyze_metrics is given on its own: each gauge at and
\* on either side of the values it is compared with.
ScoringSamples ==
    [cpu_usage : {10, 30, 75, 90}, memory_usage : {20, 40, 80, 90},
     request_rate : {50, 100, 1000, 2000}, error_rate : {5, 10},
     queue_depth : {100, 200}]

\* The mutant of scale_up_score: a deep queue counts 1.
ScaleUpScoreQueueCountsOne(metrics, config) ==
    (IF metrics.cpu_usage > config.cpu_scale_up_threshold THEN 2 ELSE 0)
    + (IF metrics.memory_usage > config.memory_scale_up_threshold THEN 2 ELSE 0)
    + (IF metrics.request_rate > 1000 THEN 1 ELSE 0)
    + (IF metrics.error_rate > 5 THEN 1 ELSE 0)
    + (IF metrics.queue_depth > 100 THEN 1 ELSE 0)

\* analyze_metrics: scale_up_score
scale_up_score(metrics, config) ==
    (IF metrics.cpu_usage > config.cpu_scale_up_threshold THEN 2 ELSE 0)
    + (IF metrics.memory_usage > config.memory_scale_up_threshold THEN 2 ELSE 0)
    + (IF metrics.request_rate > 1000 THEN 1 ELSE 0)
    + (IF metrics.error_rate > 5 THEN 1 ELSE 0)
    + (IF metrics.queue_depth > 100 THEN 2 ELSE 0)

\* analyze_metrics: scale_down_score
scale_down_score(metrics, config) ==
    (IF /\ ~(metrics.cpu_usage > config.cpu_scale_up_threshold)
        /\ metrics.cpu_usage < config.cpu_scale_down_threshold THEN 1 ELSE 0)
    + (IF /\ ~(metrics.memory_usage > config.memory_scale_up_threshold)
          /\ metrics.memory_usage < config.memory_scale_down_threshold THEN 1 ELSE 0)
    + (IF /\ ~(metrics.request_rate > 1000)
          /\ metrics.request_rate < 100 THEN 1 ELSE 0)

\* analyze_metrics: reasons, in the order they are pushed.
ScalingReasons(metrics, config) ==
    (IF metrics.cpu_usage > config.cpu_scale_up_threshold THEN <<"High CPU usage">>
     ELSE IF metrics.cpu_usage < config.cpu_scale_down_threshold THEN <<"Low CPU usage">>
     ELSE << >>)
    \o (IF metrics.memory_usage > config.memory_scale_up_threshold
        THEN <<"High memory usage">>
        ELSE IF metrics.memory_usage < config.memory_scale_down_threshold
        THEN <<"Low memory usage">>
        ELSE << >>)
    \o (IF metrics.request_rate > 1000 THEN <<"High request rate">>
        ELSE IF metrics.request_rate < 100 THEN <<"Low request rate">>
        ELSE << >>)
    \o (IF metrics.error_rate > 5 THEN <<"High error rate">> ELSE << >>)
    \o (IF metrics.queue_depth > 100 THEN <<"High queue depth">> ELSE << >>)

\* The mutant of ScaleUpTarget: the target is not clamped.
ScaleUpTargetUnclamped(current, max_instances) == current + 1

\* analyze_metrics: (current_instances + 1).min(max_instances)
ScaleUpTarget(current, max_instances) == Min(current + 1, max_instances)

\* analyze_metrics: (current_instances - 1).max(min_instances)
ScaleDownTarget(current, min_instances) == Max(current - 1, min_instances)

\* ResourceManager::analyze_metrics
analyze_metrics(id, metrics, current, config) ==
    LET up == ScaleUpTarget(current, config.max_instances)
        down == ScaleDownTarget(current, config.min_instances)
        base == [id |-> id, timestamp |-> now, current_instances |-> current,
                 direction |-> "NoChange", target_instances |-> current,
                 reason |-> <<"No scaling needed">>]
    IN  IF scale_up_score(metrics, config) >= 2
        THEN [base EXCEPT !.direction = IF up > current THEN "Up" ELSE "NoChange",
                          !.target_instances = up,
                          !.reason = ScalingReasons(metrics, config)]
        ELSE IF scale_down_score(metrics, config) >= 2 /\ current > config.min_instances
        THEN [base EXCEPT !.direction = "Down",
                          !.target_instances = down,
                          !.reason = ScalingReasons(metrics, config)]
        ELSE base

\* The mutant of CooldownNotElapsed: one second short.
CooldownNotElapsedShort(elapsed, cooldown_seconds) == elapsed + 1 < cooldown_seconds

\* is_in_cooldown's test, resource_manager.rs:268.
CooldownNotElapsed(elapsed, cooldown_seconds) == elapsed < cooldown_seconds

\* ResourceManager::is_in_cooldown
is_in_cooldown ==
    IF IsSome(last_scaling)
    THEN CooldownNotElapsed(now - Unwrap(last_scaling), rm_config.scale_cooldown_seconds)
    ELSE FALSE

\* ResourceManager::evaluate_scaling
evaluate_scaling(metrics) ==
    LET recommendation ==
            analyze_metrics(next_uuid + 1, metrics, current_instances, rm_config)
    IN  /\ h_rm_evals < MaxScalingEvals
        /\ h_rm_evals' = h_rm_evals + 1
        /\ h_rm_call' = [op |-> "evaluate_scaling", at |-> now]
        /\ IF Disabled(rm_config.enable_auto_scaling)
           THEN /\ rm_ret' = None
                /\ UNCHANGED <<metrics_history, h_metrics_log, h_recs, next_uuid>>
           ELSE /\ metrics_history' = RingPush(metrics_history, metrics, MetricsHistoryCap)
                /\ h_metrics_log' = Append(h_metrics_log, metrics)
                /\ IF is_in_cooldown
                   THEN /\ rm_ret' = None
                        /\ UNCHANGED <<h_recs, next_uuid>>
                   ELSE /\ next_uuid < MaxUuid
                        /\ next_uuid' = next_uuid + 1
                        /\ rm_ret' = Some(recommendation)
                        /\ h_recs' = h_recs \cup {recommendation}
        /\ UNCHANGED <<rm_config, current_instances, last_scaling, scaling_history,
                       h_last_applied, h_scaling_log>>
        /\ UNCHANGED <<deVars, shVars, anVars, adVars>>

\* The mutant of ScalingEvent: the event records the old count twice.
ScalingEventToOldCount(recommendation, old_count) ==
    [timestamp |-> now,
     direction |-> recommendation.direction,
     from_instances |-> old_count,
     to_instances |-> old_count,
     reason |-> recommendation.reason]

\* ScalingEvent { .. } of execute_scaling, resource_manager.rs:233-239.
ScalingEvent(recommendation, old_count) ==
    [timestamp |-> now,
     direction |-> recommendation.direction,
     from_instances |-> old_count,
     to_instances |-> recommendation.target_instances,
     reason |-> recommendation.reason]

\* ResourceManager::execute_scaling
execute_scaling(recommendation) ==
    LET event == ScalingEvent(recommendation, current_instances)
    IN  /\ h_rm_call' = [op |-> "execute_scaling", at |-> now]
        /\ h_recs' = h_recs \ {recommendation}
        /\ IF recommendation.direction = "NoChange"
           THEN UNCHANGED <<current_instances, scaling_history, last_scaling,
                            h_last_applied, h_scaling_log>>
           ELSE /\ current_instances' = recommendation.target_instances
                /\ scaling_history' = RingPush(scaling_history, event, ScalingHistoryCap)
                /\ h_scaling_log' = Append(h_scaling_log, event)
                /\ last_scaling' = Some(now)
                /\ h_last_applied' = Some(now)
        /\ UNCHANGED <<rm_config, metrics_history, rm_ret, h_rm_evals, h_metrics_log,
                       next_uuid>>
        /\ UNCHANGED <<deVars, shVars, anVars, adVars>>

InitResource ==
    /\ rm_config \in (IF engine \in {"resource", "analyze_metrics"} THEN ResourceConfigs
                      ELSE IF engine = "get_scaling_history"
                      THEN {config \in ResourceConfigs :
                               config.enable_auto_scaling /\ config.max_instances = 3}
                      ELSE {DefaultResourceConfig})
    /\ current_instances = rm_config.min_instances
    /\ metrics_history = << >>
    /\ last_scaling = None
    /\ scaling_history = << >>
    /\ rm_ret = None
    /\ h_recs = {}
    /\ h_rm_call = [op |-> "none", at |-> 0]
    /\ h_last_applied = None
    /\ h_rm_evals = 0
    /\ h_metrics_log = << >>
    /\ h_scaling_log = << >>

\* The samples evaluate_scaling is given; where the history reader is
\* exercised, those of a loaded and of an idle fleet only, on which a
\* scale-up or a scale-down is recommended.
SamplesEvaluated ==
    IF engine = "get_scaling_history"
    THEN {metrics \in MetricSamples : metrics.cpu_usage # 50}
    ELSE MetricSamples

EvaluateScaling ==
    /\ \E metrics \in SamplesEvaluated : evaluate_scaling(metrics)
    /\ UNCHANGED <<mxVars, apiVars, read_ret, engine, now, emVars>>

ExecuteScaling ==
    /\ \E recommendation \in h_recs : execute_scaling(recommendation)
    /\ UNCHANGED <<mxVars, apiVars, read_ret, engine, now, emVars>>

\* A second of wall-clock time passes.
Tick ==
    /\ now < MaxTime
    /\ now' = now + 1
    /\ UNCHANGED <<mxVars, apiVars, read_ret, engine, next_uuid, deVars, shVars, rmVars, anVars, adVars,
                   emVars>>

NextResource == EvaluateScaling \/ ExecuteScaling \/ Tick

\* analyze_metrics on its own: a function of the sample, the instance count
\* it is given and the configuration; it draws the Uuid of its result.
AnalyzeMetrics ==
    /\ next_uuid < MaxUuid
    /\ next_uuid < MaxAnalyzeCalls
    /\ next_uuid' = next_uuid + 1
    /\ \E metrics \in ScoringSamples :
          \E current \in rm_config.min_instances..rm_config.max_instances :
             /\ rm_ret' = Some(analyze_metrics(next_uuid + 1, metrics, current, rm_config))
             /\ h_rm_call' = [op |-> "analyze_metrics", at |-> now,
                              metrics |-> metrics, current_instances |-> current]
    /\ UNCHANGED <<rm_config, current_instances, metrics_history, last_scaling,
                   scaling_history, h_recs, h_last_applied, h_rm_evals, h_metrics_log,
                   h_scaling_log>>
    /\ UNCHANGED <<mxVars, apiVars, read_ret, engine, now, deVars, shVars, anVars, adVars, emVars>>

NextAnalyzeMetrics == AnalyzeMetrics

\* C4: an evaluate_scaling call made less than scale_cooldown_seconds after
\* execute_scaling applied a scaling returns no recommendation.
C4_NoRecommendationInCooldown ==
    (/\ h_rm_call.op = "evaluate_scaling"
     /\ IsSome(h_last_applied)
     /\ h_rm_call.at - Unwrap(h_last_applied) < rm_config.scale_cooldown_seconds) =>
        rm_ret = None

\* C4's case: an evaluate_scaling call made one second after a scaling was
\* applied has returned nothing.
C4_Witness ==
    /\ h_rm_call.op = "evaluate_scaling"
    /\ rm_config.enable_auto_scaling
    /\ IsSome(h_last_applied)
    /\ h_rm_call.at - Unwrap(h_last_applied) = 1
    /\ rm_ret = None

\* C5: the live instance count and the target of every recommendation
\* evaluate_scaling returned lie in [min_instances, max_instances].
C5_InstancesWithinLimits ==
    /\ rm_config.min_instances <= current_instances
    /\ current_instances <= rm_config.max_instances
    /\ \A r \in h_recs \cup (IF IsSome(rm_ret) THEN {Unwrap(rm_ret)} ELSE {}) :
          /\ rm_config.min_instances <= r.target_instances
          /\ r.target_instances <= rm_config.max_instances

\* C5's case: the fleet was scaled to max_instances and a loaded sample has
\* just been answered with a target of max_instances.
C5_Witness ==
    /\ h_rm_call.op = "evaluate_scaling"
    /\ current_instances = rm_config.max_instances
    /\ scaling_history # << >>
    /\ IsSome(rm_ret)
    /\ Unwrap(rm_ret).reason = <<"High CPU usage">>
    /\ Unwrap(rm_ret).target_instances = rm_config.max_instances

\* ======================================================== Analytics Engine
\* The configurations of config.analytics the engine is built with.
AnalyticsConfigs ==
    [enabled : BOOLEAN, enable_predictions : BOOLEAN,
     retention_days : {90}, forecast_horizon_days : {1}]

\* Settings::default(), analytics.
DefaultAnalyticsConfig ==
    [enabled |-> TRUE, enable_predictions |-> TRUE,
     retention_days |-> 90, forecast_horizon_days |-> 7]

\* process_event: retention_seconds
retention_seconds == an_config.retention_days * 86400

\* A succeeded card payment of 10 through stripe, stamped now.
PlainAnalyticsEvent ==
    [status |-> "succeeded", amount |-> Some(10), connector |-> Some("stripe"),
     payment_method |-> Some("card"), timestamp |-> now]

\* The events process_event is given: the plain event and those that differ
\* from it in one field; an event is stamped now or as old as the retention
\* period.
AnalyticsEvents ==
    {event \in [status : {"succeeded", "failed", "processing"},
                amount : {None, Some(10), Some(40)},
                connector : {None, Some("stripe")},
                payment_method : {Some("card")},
                timestamp : {now, now - retention_seconds}] :
        Cardinality({field \in DOMAIN event :
                        event[field] # PlainAnalyticsEvent[field]}) <= 1}

\* rand::random::<f64>() of predict, analytics.rs:322.
RandomDraws == {Rat(0, 1), Rat(1, 2)}

\* AggregatedMetrics { period_start, ..Default::default() }
NewAggregatedMetrics ==
    [total_payments |-> 0, successful_payments |-> 0, failed_payments |-> 0,
     total_amount |-> 0, period_start |-> Some(now), period_end |-> None]

\* event.amount, 0 when absent.
AmountOrZero(event) == IF IsSome(event.amount) THEN Unwrap(event.amount) ELSE 0

\* process_event: the aggregated metrics after the event.
UpdateAggregated(metrics, event) ==
    [metrics EXCEPT
        !.total_payments = @ + 1,
        !.successful_payments = IF event.status = "succeeded" THEN @ + 1 ELSE @,
        !.failed_payments =
            IF event.status # "succeeded" /\ event.status = "failed" THEN @ + 1 ELSE @,
        !.total_amount = @ + AmountOrZero(event),
        !.period_end = Some(now)]

\* process_event: entry(key).or_insert_with(zeroes), then the additions.
UpdateStats(stats, key, event) ==
    IF ~IsSome(key) THEN stats
    ELSE LET k == Unwrap(key)
             old == IF k \in DOMAIN stats THEN stats[k]
                    ELSE [total_transactions |-> 0, successful_transactions |-> 0,
                          total_amount |-> 0]
             new == [total_transactions |-> old.total_transactions + 1,
                     successful_transactions |->
                        IF event.status = "succeeded"
                        THEN old.successful_transactions + 1
                        ELSE old.successful_transactions,
                     total_amount |-> old.total_amount + AmountOrZero(event)]
         IN  [c \in DOMAIN stats \cup {k} |-> IF c = k THEN new ELSE stats[c]]

\* The mutant of Retain: a point at the cutoff is kept.
RetainFromCutoff(ts, cutoff) ==
    SelectSeq(ts, LAMBDA point : point.timestamp >= cutoff)

\* Vec::retain
RECURSIVE Retain(_, _)
Retain(ts, cutoff) ==
    IF ts = << >> THEN << >>
    ELSE IF Head(ts).timestamp > cutoff
         THEN <<Head(ts)>> \o Retain(Tail(ts), cutoff)
         ELSE Retain(Tail(ts), cutoff)

\* process_event: the forecast buffer after the event.
UpdateTimeSeries(ts, event) ==
    Retain(Append(ts, [timestamp |-> event.timestamp,
                       value |-> AmountOrZero(event)]),
           now - retention_seconds)

\* AnalyticsEngine::process_event
process_event(event) ==
    /\ h_an_events' = h_an_events + 1
    /\ h_an_call' = [op |-> "process_event", event |-> event]
    /\ an_ret' = [kind |-> "Ok", value |-> "unit"]
    /\ IF Disabled(an_config.enabled)
       THEN UNCHANGED <<an_metrics, connector_stats, payment_method_stats,
                        time_series_data, h_other_status>>
       ELSE /\ an_metrics' = UpdateAggregated(an_metrics, event)
            /\ connector_stats' = UpdateStats(connector_stats, event.connector, event)
            /\ payment_method_stats' =
                  UpdateStats(payment_method_stats, event.payment_method, event)
            /\ time_series_data' = UpdateTimeSeries(time_series_data, event)
            /\ h_other_status' =
                  (h_other_status \/ event.status \notin {"succeeded", "failed"})
    /\ UNCHANGED <<an_config, next_uuid>>
    /\ UNCHANGED <<deVars, shVars, rmVars, adVars>>

\* The mutant of SummarySuccessRate: the share of failed payments.
SummaryFailureRate(metrics) ==
    IF metrics.total_payments > 0
    THEN Rat(metrics.failed_payments, metrics.total_payments)
    ELSE RatZero

\* get_summary: success_rate
SummarySuccessRate(metrics) ==
    IF metrics.total_payments > 0
    THEN Rat(metrics.successful_payments, metrics.total_payments)
    ELSE RatZero

\* get_summary: avg_amount
SummaryAvgAmount(metrics) ==
    IF metrics.total_payments > 0
    THEN Rat(metrics.total_amount, metrics.total_payments)
    ELSE RatZero

\* get_summary: one row of a top table.
StatsRow(stats, k) ==
    [name |-> k,
     total_transactions |-> stats[k].total_transactions,
     success_rate |->
        IF stats[k].total_transactions > 0
        THEN Rat(stats[k].successful_transactions, stats[k].total_transactions)
        ELSE RatZero,
     total_amount |-> stats[k].total_amount]

\* get_summary: the orders sort_by(total_transactions descending) can leave
\* the rows of a HashMap in, cut to the first 10.
TopTables(stats) ==
    LET n == Cardinality(DOMAIN stats)
        orders == {f \in [1..n -> DOMAIN stats] :
                      /\ \A i, j \in 1..n : i # j => f[i] # f[j]
                      /\ \A i \in 1..n : \A j \in i..n :
                            stats[f[i]].total_transactions
                               >= stats[f[j]].total_transactions}
    IN  {[i \in 1..Min(n, 10) |-> StatsRow(stats, f[i])] : f \in orders}

\* AnalyticsEngine::get_summary
get_summary(top_connectors, top_payment_methods) ==
    /\ h_an_call' = [op |-> "get_summary"]
    /\ an_ret' =
          [kind |-> "Ok",
           value |->
              [period_start |-> IF IsSome(an_metrics.period_start)
                                THEN Unwrap(an_metrics.period_start) ELSE now,
               period_end |-> IF IsSome(an_metrics.period_end)
                              THEN Unwrap(an_metrics.period_end) ELSE now,
               total_payments |-> an_metrics.total_payments,
               successful_payments |-> an_metrics.successful_payments,
               failed_payments |-> an_metrics.failed_payments,
               success_rate |-> SummarySuccessRate(an_metrics),
               total_amount |-> an_metrics.total_amount,
               avg_amount |-> SummaryAvgAmount(an_metrics),
               top_connectors |-> top_connectors,
               top_payment_methods |-> top_payment_methods,
               anomalies_detected |-> 0,
               healing_actions_taken |-> 0]]
    /\ UNCHANGED <<an_config, an_metrics, connector_stats, payment_method_stats,
                   time_series_data, h_an_events, h_other_status, next_uuid>>
    /\ UNCHANGED <<deVars, shVars, rmVars, adVars>>

RECURSIVE SeqSum(_)
\* Iterator::sum over f64 values.
SeqSum(values) ==
    IF values = << >> THEN RatZero ELSE RatAdd(Head(values), SeqSum(Tail(values)))

RECURSIVE ISqrtBetween(_, _, _)
\* The largest r in lo..hi with r * r <= n, by bisection.
ISqrtBetween(n, lo, hi) ==
    IF lo >= hi THEN lo
    ELSE LET mid == (lo + hi + 1) \div 2
         IN  IF mid * mid <= n THEN ISqrtBetween(n, mid, hi)
             ELSE ISqrtBetween(n, lo, mid - 1)

\* f64::sqrt of a rational x >= 0, rounded down to a multiple of 1/SqrtScale.
RatSqrt(x) ==
    Rat(ISqrtBetween((x[1] * SqrtScale * SqrtScale) \div x[2], 0, 46340), SqrtScale)

\* The mutant of RecentValues: the oldest points instead of the newest.
OldestValues(ts, window_size) ==
    [i \in 1..Min(window_size, Len(ts)) |-> Rat(ts[i].value, 1)]

\* predict: ts_data.iter().rev().take(window_size).map(|p| p.value)
RecentValues(ts, window_size) ==
    [i \in 1..Min(window_size, Len(ts)) |-> Rat(ts[Len(ts) + 1 - i].value, 1)]

\* predict: avg
Average(values) == RatMul(SeqSum(values), Rat(1, Len(values)))

\* predict: std_dev
StdDev(values) ==
    LET avg == Average(values)
        squares == [i \in 1..Len(values) |->
                      RatMul(RatSub(values[i], avg), RatSub(values[i], avg))]
        variance == RatMul(SeqSum(squares), Rat(1, Len(values)))
    IN  RatSqrt(variance)

\* AnalyticsEngine::predict
predict(metric, draws) ==
    LET recent_values == RecentValues(time_series_data, PredictionWindow)
        avg == Average(recent_values)
        std_dev == StdDev(recent_values)
        predictions ==
            [day \in 1..an_config.forecast_horizon_days |->
                [timestamp |-> now + 86400 * day,
                 value |-> RatAdd(avg, RatMul(RatMul(RatSub(draws[day], Rat(1, 2)),
                                                     std_dev), Rat(1, 2)))]]
    IN  /\ h_an_call' = [op |-> "predict"]
        /\ IF ~an_config.enable_predictions
           THEN /\ an_ret' = [kind |-> "Err", error |-> "Computation",
                              message |-> "Predictions are disabled"]
                /\ UNCHANGED next_uuid
           ELSE IF Len(time_series_data) < MinPredictionPoints
           THEN /\ an_ret' = [kind |-> "Err", error |-> "InsufficientData",
                              have |-> Len(time_series_data)]
                /\ UNCHANGED next_uuid
           ELSE /\ next_uuid < MaxUuid
                /\ next_uuid' = next_uuid + 1
                /\ an_ret' =
                      [kind |-> "Ok",
                       value |->
                          [id |-> next_uuid + 1, timestamp |-> now, metric |-> metric,
                           predictions |-> predictions,
                           confidence_interval |->
                              <<RatSub(avg, std_dev), RatAdd(avg, std_dev)>>,
                           model_accuracy |-> Some(Rat(85, 100))]]
        /\ UNCHANGED <<an_config, an_metrics, connector_stats, payment_method_stats,
                       time_series_data, h_an_events, h_other_status>>
        /\ UNCHANGED <<deVars, shVars, rmVars, adVars>>

\* The mutant of SeriesAfterReset: reset empties the forecast buffer too.
SeriesClearedByReset(ts) == << >>

\* reset takes the metrics and the two tables and never locks
\* time_series_data: the buffer after it is the buffer before it.
SeriesAfterReset(ts) == ts

\* AnalyticsEngine::reset
reset ==
    /\ h_an_call' = [op |-> "reset"]
    /\ an_ret' = [kind |-> "Ok", value |-> "unit"]
    /\ an_metrics' = NewAggregatedMetrics
    /\ connector_stats' = << >>
    /\ payment_method_stats' = << >>
    /\ time_series_data' = SeriesAfterReset(time_series_data)
    /\ UNCHANGED <<an_config, h_an_events, h_other_status, next_uuid>>
    /\ UNCHANGED <<deVars, shVars, rmVars, adVars>>

InitAnalytics ==
    /\ an_config \in (IF engine \in {"analytics", "retention"} THEN AnalyticsConfigs
                      ELSE {DefaultAnalyticsConfig})
    /\ an_metrics = NewAggregatedMetrics
    /\ connector_stats = << >>
    /\ payment_method_stats = << >>
    /\ time_series_data = << >>
    /\ an_ret = [kind |-> "none"]
    /\ h_an_call = [op |-> "none"]
    /\ h_an_events = 0
    /\ h_other_status = FALSE

ProcessEvent ==
    /\ h_an_events < MaxAnalyticsEvents
    /\ \E event \in AnalyticsEvents : process_event(event)
    /\ UNCHANGED <<mxVars, apiVars, read_ret, engine, now, emVars>>

GetSummary ==
    /\ \E top_connectors \in TopTables(connector_stats) :
          \E top_payment_methods \in TopTables(payment_method_stats) :
             get_summary(top_connectors, top_payment_methods)
    /\ UNCHANGED <<mxVars, apiVars, read_ret, engine, now, emVars>>

Predict ==
    /\ \E draws \in [1..an_config.forecast_horizon_days -> RandomDraws] :
          predict("payment_volume", draws)
    /\ UNCHANGED <<mxVars, apiVars, read_ret, engine, now, emVars>>

Reset ==
    /\ reset
    /\ UNCHANGED <<mxVars, apiVars, read_ret, engine, now, emVars>>

NextAnalytics == ProcessEvent \/ GetSummary \/ Predict \/ Reset

\* Half a retention period of wall-clock time passes.
PassTime ==
    /\ now < MaxTime * (retention_seconds \div 2)
    /\ now' = now + retention_seconds \div 2
    /\ UNCHANGED <<mxVars, apiVars, read_ret, engine, next_uuid, deVars, shVars, rmVars, anVars,
                   adVars, emVars>>

\* The engine fed with events, and reset, while time passes.
NextRetention == ProcessEvent \/ Reset \/ PassTime

\* C6: a summary taken after only succeeded and failed events were processed
\* has successful + failed = total and success_rate * total = successful,
\* the rate being 0 when total is 0.
C6_SummaryCountersAgree ==
    (/\ h_an_call.op = "get_summary"
     /\ ~h_other_status) =>
        LET summary == an_ret.value
        IN  /\ summary.successful_payments + summary.failed_payments
                  = summary.total_payments
            /\ IF summary.total_payments = 0
               THEN summary.success_rate = RatZero
               ELSE RatMul(summary.success_rate, Rat(summary.total_payments, 1))
                       = Rat(summary.successful_payments, 1)

\* C6's case: a summary over succeeded and failed events, both present.
C6_Witness ==
    /\ h_an_call.op = "get_summary"
    /\ ~h_other_status
    /\ an_ret.value.successful_payments >= 2
    /\ an_ret.value.failed_payments >= 1

\* The values of the last n buffered points, oldest first.
LastValues(ts, n) ==
    [i \in 1..Min(n, Len(ts)) |-> Rat(ts[Len(ts) - Min(n, Len(ts)) + i].value, 1)]

\* predict's answer to the buffer it was called with: the insufficient-data
\* error below MinPredictionPoints points, otherwise an interval centred on
\* the mean of the last PredictionWindow values, one standard deviation wide
\* on each side.
PredictAnswersBuffer ==
    IF Len(time_series_data) < MinPredictionPoints
    THEN an_ret.kind = "Err" /\ an_ret.error = "InsufficientData"
    ELSE /\ an_ret.kind = "Ok"
         /\ LET values == LastValues(time_series_data, PredictionWindow)
                interval == an_ret.value.confidence_interval
            IN  /\ RatAdd(interval[1], interval[2])
                      = RatMul(Rat(2, 1), Average(values))
                /\ RatSub(interval[2], interval[1])
                      = RatMul(Rat(2, 1), StdDev(values))

AnomalyConfigs ==
    [enabled : BOOLEAN, sensitivity : {Rat(1, 10)}, enable_fraud_detection : BOOLEAN]

\* Settings::default(), anomaly_detection.
DefaultAnomalyConfig ==
    [enabled |-> TRUE, sensitivity |-> Rat(85, 100), enable_fraud_detection |-> TRUE]

\* A succeeded payment of 2 minor units.
PlainAnomalyEvent ==
    [payment_id |-> "pay_1", status |-> "succeeded", amount |-> Some(2),
     error_code |-> None]

\* The other events analyze_event is given: a declined payment of 3, a
\* payment without amount and a declined payment of 8.
OddAnomalyEvents ==
    {[PlainAnomalyEvent EXCEPT !.status = "failed", !.amount = Some(3),
                               !.error_code = Some("card_declined")],
     [PlainAnomalyEvent EXCEPT !.amount = None],
     [PlainAnomalyEvent EXCEPT !.status = "failed", !.amount = Some(8),
                               !.error_code = Some("card_declined")]}

\* The configurations where the fraud detector is exercised on its own:
\* sensitivities at two of the scores it computes.
FraudConfigs ==
    [enabled : BOOLEAN, sensitivity : {Rat(2, 10), Rat(5, 10)},
     enable_fraud_detection : BOOLEAN]

\* The events given to the fraud detector: amounts at and above the amount
\* it compares with and none at all; declined, otherwise failed and
\* succeeded payments.
FraudEvents ==
    {event \in [payment_id : {"pay_1"}, status : {"succeeded", "failed"},
                amount : {None, Some(100000), Some(100001)},
                error_code : {None, Some("card_declined"), Some("expired_card")}] :
        (event.status = "failed") <=> IsSome(event.error_code)}

\* A failed payment without an error code.
FailedAnomalyEvent == [PlainAnomalyEvent EXCEPT !.status = "failed"]

\* The number of failed payments where the success-rate detector is
\* exercised on its own.
FailedEventLimit == MaxOddEvents + 2

\* The mutant of add_point: the newest point is evicted.
AddPointEvictNewest(queue, point, max_points) ==
    IF Len(queue) >= max_points
    THEN Append(SubSeq(queue, 1, Len(queue) - 1), point)
    ELSE Append(queue, point)

\* TimeSeries::add_point
add_point(queue, point, max_points) ==
    IF Len(queue) >= max_points THEN Append(Tail(queue), point) ELSE Append(queue, point)

\* TimePoint { timestamp: now, value }; every value the engine stores is a
\* whole number (1.0, 0.0 or amount as f64) and is kept as an integer.
TimePoint(value) == [timestamp |-> now, value |-> value]

RECURSIVE SumFrom(_, _)
\* Iterator::sum over the values of the points from index i on.
SumFrom(queue, i) ==
    IF i > Len(queue) THEN 0 ELSE queue[i].value + SumFrom(queue, i + 1)

\* AnomalyResult; details and recommended_actions are texts of the type.
AnomalyResult(id, score, anomaly_type, entity_id) ==
    [id |-> id, timestamp |-> now, is_anomaly |-> TRUE, score |-> score,
     anomaly_type |-> anomaly_type, entity_id |-> entity_id]

\* The mutant of VolumeRatio: the baseline is the count of the points
\* before the recent five, not scaled to five.
VolumeRatioUnscaled(volumes) ==
    RatDiv(Rat(Min(5, Len(volumes)), 1), RatMax(Rat(Len(volumes) - 5, 1), RatOne))

\* detect_volume_anomaly: recent_count, baseline_count and ratio.  The
\* counts are whole numbers, a count divided by itself is 1.0 and 1.0 * 5.0
\* is 5.0 in f64 as well.
VolumeRatio(volumes) ==
    LET len == Len(volumes)
        recent_count == Rat(Min(5, len), 1)
        baseline_count == RatMul(Rat(len - 5, Max(len - 5, 1)), Rat(5, 1))
    IN  RatDiv(recent_count, RatMax(baseline_count, RatOne))

\* AnomalyDetector::detect_volume_anomaly
detect_volume_anomaly(volumes, id) ==
    LET len == Len(volumes)
        threshold == Rat(2, 1)
        ratio == VolumeRatio(volumes)
    IN  IF len < 10 THEN None
        ELSE IF RatLess(threshold, ratio)
        THEN Some(AnomalyResult(id, RatMin(RatDiv(RatSub(ratio, RatOne), threshold),
                                           RatOne),
                                "VolumeSpike", "system"))
        ELSE IF RatLess(ratio, RatDiv(RatOne, threshold))
        THEN Some(AnomalyResult(id, RatMin(RatSub(RatOne, ratio), RatOne),
                                "VolumeDrop", "system"))
        ELSE None

\* ------------------------------------------------------------ f64 arithmetic
\* The success rates of detect_success_rate_anomaly are IEEE-754 doubles and
\* its test stands on the last bit of their difference, so these are
\* computed bit by bit.  A finite double x >= 0 is [e, m]: m is its 53-bit
\* significand, most significant bit first, and x = m * 2^(e - 52); zero has
\* the empty significand.
F64Bits == 53

F64Zero == [e |-> 0, m |-> << >>]

RECURSIVE Scaled(_, _, _)
\* a, b and e with b <= a < 2b and a/b * 2^e equal to the quotient asked for.
Scaled(a, b, e) ==
    IF a >= 2 * b THEN Scaled(a, 2 * b, e + 1)
    ELSE IF a < b THEN Scaled(2 * a, b, e - 1)
    ELSE <<a, b, e>>

\* The bits of two runs of quotient bits, and the remainder after the second.
Joined(bits, second) == [bits |-> bits \o second.bits, rem |-> second.rem]

RECURSIVE QuotientBits(_, _, _)
RECURSIVE Continued(_, _, _)
\* The next k bits of rem / b, rem < b, and the remainder left after them;
\* the second half of the bits continues from the remainder of the first.
QuotientBits(rem, b, k) ==
    IF k = 0 THEN [bits |-> << >>, rem |-> rem]
    ELSE IF k = 1
    THEN (IF 2 * rem >= b THEN [bits |-> <<1>>, rem |-> 2 * rem - b]
          ELSE [bits |-> <<0>>, rem |-> 2 * rem])
    ELSE Continued(QuotientBits(rem, b, k \div 2), b, k - k \div 2)

Continued(first, b, k) == Joined(first.bits, QuotientBits(first.rem, b, k))

\* The least and the greatest member of a non-empty set of indices.
First(indices) == CHOOSE i \in indices : \A j \in indices : i <= j

Last(indices) == CHOOSE i \in indices : \A j \in indices : i >= j

\* The bits with a one at an index and zeros after it.
CarriedTo(bits, at) ==
    [i \in 1..Len(bits) |-> IF i < at THEN bits[i] ELSE IF i = at THEN 1 ELSE 0]

\* bits + 1, of the same length, given the indices of its zero bits; all
\* ones wrap to all zeros.
IncrementedAt(bits, zeros) ==
    IF zeros = {} THEN [i \in 1..Len(bits) |-> 0]
    ELSE CarriedTo(bits, Last(zeros))

Incremented(bits) == IncrementedAt(bits, {i \in 1..Len(bits) : bits[i] = 0})

\* A significand that wrapped to zeros is 1 followed by zeros, one exponent up.
Renormalised(e, next) ==
    IF next[1] = 0 THEN [e |-> e + 1, m |-> [next EXCEPT ![1] = 1]]
    ELSE [e |-> e, m |-> next]

\* Round to nearest, ties to even: m is the significand kept, up tells
\* whether the part cut off is above one half of the last place, tie whether
\* it is exactly one half.
Rounded(e, m, up, tie) ==
    IF up \/ (tie /\ m[Len(m)] = 1) THEN Renormalised(e, Incremented(m))
    ELSE [e |-> e, m |-> m]

\* The quotient rounded: its leading one, the bits after it, and the
\* remainder against one half of the last place.
RoundedQuotient(e, b, quotient) ==
    Rounded(e, <<1>> \o quotient.bits, 2 * quotient.rem > b, 2 * quotient.rem = b)

\* The double nearest to a / b * 2^e for <<a, b, e>> with b <= a < 2b.
QuotientOf(scaled) ==
    RoundedQuotient(scaled[3], scaled[2],
                    QuotientBits(scaled[1] - scaled[2], scaled[2], F64Bits - 1))

\* (s as f64) / (n as f64) for whole numbers s >= 0 and n >= 1.
F64Div(s, n) == IF s = 0 THEN F64Zero ELSE QuotientOf(Scaled(s, n, 0))

\* x < y at the first of the indices where the two differ, if any.
LessAt(x, y, differing) ==
    differing # {} /\ x[First(differing)] < y[First(differing)]

\* x < y for the bits from i on of two bit strings of one length.
BitsLess(x, y, i) == LessAt(x, y, {j \in i..Len(x) : x[j] # y[j]})

\* x < y
F64Less(x, y) ==
    IF y.m = << >> THEN FALSE
    ELSE IF x.m = << >> THEN TRUE
    ELSE IF x.e # y.e THEN x.e < y.e
    ELSE BitsLess(x.m, y.m, 1)

Zeros(k) == [i \in 1..k |-> 0]

\* x - y for bit strings of one length, x >= y: a bit borrows when the
\* bits below it are less in x than in y.
BitsMinus(x, y) ==
    [i \in 1..Len(x) |->
        (2 + x[i] - y[i] - (IF BitsLess(x, y, i + 1) THEN 1 ELSE 0)) % 2]

\* The bits from the first one bit on.
FromFirstOne(bits, ones) ==
    IF ones = {} THEN << >> ELSE SubSeq(bits, First(ones), Len(bits))

WithoutLeadingZeros(bits) == FromFirstOne(bits, {i \in 1..Len(bits) : bits[i] = 1})

\* The digits kept, rounded by the digits cut off.
RoundedBy(e, kept, cut) ==
    Rounded(e, kept, cut[1] = 1 /\ \E i \in 2..Len(cut) : cut[i] = 1,
                     cut[1] = 1 /\ \A i \in 2..Len(cut) : cut[i] = 0)

\* The double of the digits of a difference, the first of them a one, whose
\* last digit has the weight of the last place of a double of exponent low.
Significand(digits, low) ==
    IF digits = << >> THEN F64Zero
    ELSE IF Len(digits) <= F64Bits
    THEN [e |-> low - F64Bits + Len(digits),
          m |-> digits \o Zeros(F64Bits - Len(digits))]
    ELSE RoundedBy(low - F64Bits + Len(digits), SubSeq(digits, 1, F64Bits),
                   SubSeq(digits, F64Bits + 1, Len(digits)))

\* x - y for x >= y >= 0: y is shifted to the exponent of x, the bit strings
\* are subtracted and the difference is normalised and rounded.
F64Sub(x, y) ==
    IF y.m = << >> THEN x
    ELSE Significand(WithoutLeadingZeros(BitsMinus(x.m \o Zeros(x.e - y.e),
                                                   Zeros(x.e - y.e) \o y.m)),
                     y.e)

\* detect_success_rate_anomaly's test baseline_success_rate -
\* recent_success_rate > drop_threshold, for a baseline of n points of
\* which b are 1.0 and a recent 10 of which r are 1.0.  The sums of the 1.0
\* and 0.0 points are whole and exact; the literal 0.2 is the double nearest
\* to 1/5, which is 2.0 / 10.0; a baseline below the recent rate gives a
\* negative difference, which is not above 0.2.
DropAbove(baseline_success_rate, recent_success_rate, drop_threshold) ==
    /\ ~F64Less(baseline_success_rate, recent_success_rate)
    /\ F64Less(drop_threshold, F64Sub(baseline_success_rate, recent_success_rate))

\* The test on the three counts of a window.
DropAboveThreshold(n, b, r) == DropAbove(F64Div(b, n), F64Div(r, 10), F64Div(2, 10))

\* The windows of at least 20 points, by their three counts, on which the
\* test succeeds.
SignificantDrops ==
    {counts \in {<<n, b, r>> : n \in 10..Max(MaxPoints - 10, 10),
                               b \in 0..Max(MaxPoints - 10, 10), r \in 0..10} :
        counts[2] <= counts[1] /\ DropAboveThreshold(counts[1], counts[2], counts[3])}

\* AnomalyDetector::detect_success_rate_anomaly.  The quotient of a drop
\* above drop_threshold by drop_threshold is at least 1.0, so the score,
\* capped by min(1.0), is 1.0.
detect_success_rate_anomaly(rates, id) ==
    LET len == Len(rates)
        recent == SumFrom(SubSeq(rates, len - 9, len), 1)
        baseline == SumFrom(SubSeq(rates, 1, len - 10), 1)
    IN  IF len < 20 THEN None
        ELSE IF <<len - 10, baseline, recent>> \in SignificantDrops
        THEN Some(AnomalyResult(id, RatOne, "HighFailureRate", "system"))
        ELSE None

\* detect_fraud_pattern: fraud_score
fraud_score(event) ==
    RatAdd(IF IsSome(event.amount) /\ Unwrap(event.amount) > 100000
           THEN Rat(3, 10) ELSE RatZero,
           IF event.error_code = Some("card_declined") THEN Rat(2, 10) ELSE RatZero)

\* The mutant of detect_fraud_pattern: a score at the sensitivity fires.
FraudPatternAtSensitivity(event, id) ==
    IF ~RatLess(fraud_score(event), ad_config.sensitivity)
    THEN Some(AnomalyResult(id, fraud_score(event), "PotentialFraud", event.payment_id))
    ELSE None

\* AnomalyDetector::detect_fraud_pattern
detect_fraud_pattern(event, id) ==
    IF RatLess(ad_config.sensitivity, fraud_score(event))
    THEN Some(AnomalyResult(id, fraud_score(event), "PotentialFraud", event.payment_id))
    ELSE None

\* detect_amount_anomaly: mean
AmountMean(amounts) == Rat(SumFrom(amounts, 1), Len(amounts))

RECURSIVE SumSquaredDeviationsFrom(_, _, _)
\* The sum of (v - mean)^2 over the points from index i on, in units of
\* 1 / len^2: v - mean = (len * v - sum) / len.
SumSquaredDeviationsFrom(queue, sum, i) ==
    IF i > Len(queue) THEN 0
    ELSE (Len(queue) * queue[i].value - sum) * (Len(queue) * queue[i].value - sum)
         + SumSquaredDeviationsFrom(queue, sum, i + 1)

\* detect_amount_anomaly: variance
AmountVariance(amounts) ==
    LET len == Len(amounts)
    IN  Rat(SumSquaredDeviationsFrom(amounts, SumFrom(amounts, 1), 1), len * len * len)

\* The mutant of StdDevFloorSquared: no floor under the deviation.
StdDevSquaredNoFloor(variance) == variance

\* detect_amount_anomaly: std_dev.max(1.0), squared.
StdDevFloorSquared(variance) == RatMax(variance, RatOne)

\* detect_amount_anomaly: z_score, squared: the square of |amount - mean|
\* over the square of std_dev.max(1.0).
ZScoreSquared(amount, amounts) ==
    LET deviation == RatSub(Rat(amount, 1), AmountMean(amounts))
        floor == StdDevFloorSquared(AmountVariance(amounts))
    IN  IF floor = RatZero THEN RatZero
        ELSE RatDiv(RatMul(deviation, deviation), floor)

\* AnomalyDetector::detect_amount_anomaly; z_score > 3.0 is decided on the
\* squares, z_score * z_score > 9.0.
detect_amount_anomaly(amounts, event, id) ==
    IF ~IsSome(event.amount) THEN None
    ELSE IF Len(amounts) < 20 THEN None
    ELSE LET z_squared == ZScoreSquared(Unwrap(event.amount), amounts)
         IN  IF RatLess(Rat(9, 1), z_squared)
             THEN Some(AnomalyResult(id,
                                     RatMin(RatDiv(RatSqrt(z_squared), Rat(5, 1)),
                                            RatOne),
                                     "UnusualPattern", event.payment_id))
             ELSE None

\* The mutant of MaxByScore: the result of the first detector that fired.
FirstFired(results) ==
    IF results = << >> THEN None ELSE Some(Head(results))

RECURSIVE MaxByScore(_)
\* Iterator::max_by on the scores: of equal maxima the last one.
MaxByScore(results) ==
    IF results = << >> THEN None
    ELSE LET rest == MaxByScore(Tail(results))
         IN  IF IsSome(rest) /\ ~RatLess(Unwrap(rest).score, Head(results).score)
             THEN rest
             ELSE Some(Head(results))

\* analyze_event: detected_anomalies, each fired detector drawing the next Uuid.
DetectedAnomalies(volumes, rates, amounts, event) ==
    LET r1 == detect_volume_anomaly(volumes, next_uuid + 1)
        n1 == next_uuid + Len(r1)
        r2 == detect_success_rate_anomaly(rates, n1 + 1)
        n2 == n1 + Len(r2)
        r3 == IF ad_config.enable_fraud_detection
              THEN detect_fraud_pattern(event, n2 + 1)
              ELSE None
        n3 == n2 + Len(r3)
        r4 == detect_amount_anomaly(amounts, event, n3 + 1)
    IN  r1 \o r2 \o r3 \o r4

\* AnomalyDetector::analyze_event, update_time_series included.
analyze_event(event) ==
    LET volumes == add_point(payment_volumes, TimePoint(1), MaxPoints)
        rates == add_point(success_rates,
                           TimePoint(IF event.status = "succeeded" THEN 1 ELSE 0),
                           MaxPoints)
        amounts == IF IsSome(event.amount)
                   THEN add_point(average_amounts, TimePoint(Unwrap(event.amount)),
                                  MaxPoints)
                   ELSE average_amounts
        detected_anomalies == DetectedAnomalies(volumes, rates, amounts, event)
        result == MaxByScore(detected_anomalies)
    IN  /\ h_ad_events' = h_ad_events + 1
        /\ h_odd_events' = IF event # PlainAnomalyEvent THEN h_odd_events + 1
                           ELSE h_odd_events
        /\ h_ad_call' = [op |-> "analyze_event", event |-> Some(event)]
        /\ IF Disabled(ad_config.enabled)
           THEN /\ ad_ret' = None
                /\ h_detected' = << >>
                /\ UNCHANGED <<payment_volumes, success_rates, average_amounts,
                               anomalies, h_volume_log, h_success_log, h_amount_log,
                               h_anomaly_log, next_uuid>>
           ELSE /\ next_uuid + Len(detected_anomalies) <= MaxUuid
                /\ next_uuid' = next_uuid + Len(detected_anomalies)
                /\ payment_volumes' = volumes
                /\ success_rates' = rates
                /\ average_amounts' = amounts
                /\ h_volume_log' = Append(h_volume_log, TimePoint(1))
                /\ h_success_log' =
                      Append(h_success_log,
                             TimePoint(IF event.status = "succeeded" THEN 1 ELSE 0))
                /\ h_amount_log' =
                      IF IsSome(event.amount)
                      THEN Append(h_amount_log, TimePoint(Unwrap(event.amount)))
                      ELSE h_amount_log
                /\ h_detected' = detected_anomalies
                /\ ad_ret' = result
                /\ IF IsSome(result)
                   THEN /\ anomalies' =
                              RingPush(anomalies, Unwrap(result), AnomalyHistoryCap)
                        /\ h_anomaly_log' = Append(h_anomaly_log, Unwrap(result))
                   ELSE UNCHANGED <<anomalies, h_anomaly_log>>
        /\ UNCHANGED ad_config
        /\ UNCHANGED <<deVars, shVars, rmVars, anVars>>

InitAnomaly ==
    /\ ad_config \in (IF engine = "anomaly" THEN AnomalyConfigs
                      ELSE IF engine = "get_anomalies"
                      THEN {config \in AnomalyConfigs :
                               config.enabled /\ config.enable_fraud_detection}
                      ELSE IF engine = "fraud" THEN FraudConfigs
                      ELSE IF engine = "success_rate"
                      THEN {config \in AnomalyConfigs :
                               config.enabled /\ ~config.enable_fraud_detection}
                      ELSE {DefaultAnomalyConfig})
    /\ payment_volumes = << >>
    /\ success_rates = << >>
    /\ average_amounts = << >>
    /\ anomalies = << >>
    /\ ad_ret = None
    /\ h_ad_call = [op |-> "none", event |-> None]
    /\ h_detected = << >>
    /\ h_ad_events = 0
    /\ h_odd_events = 0
    /\ h_volume_log = << >>
    /\ h_success_log = << >>
    /\ h_amount_log = << >>
    /\ h_anomaly_log = << >>

\* The events analyze_event is given; where the history reader is
\* exercised, declined payments only, each of which is an anomaly; where
\* the success-rate detector is exercised, succeeded and failed payments of
\* one amount; where the fraud detector is exercised, a few events of
\* large amounts.
EventsAnalyzed ==
    IF engine = "get_anomalies"
    THEN (IF h_odd_events < MaxOddEvents
          THEN {event \in OddAnomalyEvents : IsSome(event.error_code)} ELSE {})
    ELSE IF engine = "fraud"
    THEN (IF h_ad_events < MaxOddEvents THEN FraudEvents ELSE {})
    ELSE IF engine = "success_rate"
    THEN {PlainAnomalyEvent} \cup
            (IF h_odd_events < FailedEventLimit THEN {FailedAnomalyEvent} ELSE {})
    ELSE {PlainAnomalyEvent} \cup
            (IF h_odd_events < MaxOddEvents THEN OddAnomalyEvents ELSE {})

AnalyzeEvent ==
    /\ h_ad_events < MaxAnomalyEvents
    /\ \E event \in EventsAnalyzed : analyze_event(event)
    /\ UNCHANGED <<mxVars, apiVars, read_ret, engine, now, emVars>>

NextAnomaly == AnalyzeEvent

\* The event of the last analyze_event call.
AnalyzedEvent == Unwrap(h_ad_call.event)

\* The amount detector fired on the last analyze_event call.
UnusualPatternFired ==
    \E i \in 1..Len(h_detected) : h_detected[i].anomaly_type = "UnusualPattern"

\* The last call was an analyze_event on an event with an amount, answered
\* from an amount window of at least 20 points.
AmountDetectorRan ==
    /\ h_ad_call.op = "analyze_event"
    /\ ad_config.enabled
    /\ IsSome(AnalyzedEvent.amount)
    /\ Len(average_amounts) >= 20

RECURSIVE SumOfSquaresFrom(_, _)
\* The sum of the squared values of the points from index i on.
SumOfSquaresFrom(queue, i) ==
    IF i > Len(queue) THEN 0
    ELSE queue[i].value * queue[i].value + SumOfSquaresFrom(queue, i + 1)

\* len^2 times the variance of the amount window: len * sum(v^2) - sum(v)^2.
SpreadSquared ==
    Len(average_amounts) * SumOfSquaresFrom(average_amounts, 1)
       - SumFrom(average_amounts, 1) * SumFrom(average_amounts, 1)

\* len^2 times the squared distance of the analyzed amount from the mean of
\* the amount window.
DistanceSquared ==
    LET d == Len(average_amounts) * Unwrap(AnalyzedEvent.amount)
                - SumFrom(average_amounts, 1)
    IN  d * d

MostRecent(log, cap) == SubSeq(log, Len(log) - Min(Len(log), cap) + 1, Len(log))

MonitorConfigs == [enabled : BOOLEAN, poll_interval_ms : {100}]

\* Settings::default(), event_monitor.
DefaultMonitorConfig == [enabled |-> TRUE, poll_interval_ms |-> 100]

\* The draws of generate_sample_event: the three event types, two of the
\* four connectors, one of the three payment methods, two of the amounts of
\* 1000..100000.
SampleEventTypes == {"PaymentCreated", "PaymentSucceeded", "PaymentFailed"}

SampleConnectors == {"stripe", "adyen"}

SamplePaymentMethods == {"card"}

SampleAmounts == {1000, 2000}

\* EventMonitor::generate_sample_event; the payment id is fresh at each call.
generate_sample_event(event_type, connector, payment_method, amount) ==
    LET is_success == (event_type = "PaymentSucceeded")
    IN  [event_type |-> event_type,
         timestamp |-> now,
         payment_id |-> <<"pay", h_ticks>>,
         connector |-> Some(connector),
         payment_method |-> Some(payment_method),
         amount |-> Some(amount),
         status |-> IF is_success THEN "succeeded" ELSE "failed",
         error_code |-> IF is_success THEN None ELSE Some("card_declined")]

\* The RwLock of AppState that process_events takes in write mode for the call.
EngineLock(consumer) ==
    CASE consumer = "anomaly" -> "anomaly_detector"
      [] consumer = "analytics" -> "analytics"
      [] consumer = "healing" -> "self_healing"

\* RwLock::write returns at once: no request task holds the lock, in either
\* mode.  The guard is dropped at the end of the block of the call.
WriteLockFree(lock) == \A held \in api_held : held.lock # lock

\* The mutant of NextStage: start returns after the first process_events.
NextStageExits(stage) ==
    CASE stage = "anomaly" -> "analytics"
      [] stage = "analytics" -> "healing"
      [] stage = "healing" -> "exited"

\* The mutant of NextStage: the Analytics Engine is passed over.
NextStageSkipsAnalytics(stage) ==
    CASE stage = "anomaly" -> "healing"
      [] stage = "analytics" -> "healing"
      [] stage = "healing" -> "ticker"

\* The order of process_events: the Anomaly Engine, the Analytics Engine,
\* the Self-Healing Engine, then back to the loop of start.  The order does
\* not depend on an engine's result: an Err is logged (logger::warn!) and
\* the function goes on.
NextStage(stage) ==
    CASE stage = "anomaly" -> "analytics"
      [] stage = "analytics" -> "healing"
      [] stage = "healing" -> "ticker"

\* The record of one engine call of process_events.  Every path of
\* analyze_event, process_event and evaluate_event returns Ok.
FanOut(consumer) ==
    Append(h_fanout, [consumer |-> consumer, event |-> Unwrap(em_event), result |-> "Ok"])

\* ticker.tick().await returns: the loop of start goes on to poll_events.
ticker_tick ==
    /\ em_pc = "ticker"
    /\ h_ticks < MaxTicks
    /\ h_ticks' = h_ticks + 1
    /\ em_pc' = "poll_events"
    /\ UNCHANGED <<em_config, em_event, em_ret, h_fanout>>
    /\ UNCHANGED <<next_uuid, deVars, shVars, rmVars, anVars, adVars>>

\* poll_events up to the first engine call: with monitoring off it returns
\* Ok(()); else process_events draws its sample event.
poll_events(sample_event) ==
    /\ em_pc = "poll_events"
    /\ h_fanout' = << >>
    /\ IF ~em_config.enabled
       THEN /\ em_pc' = "ticker"
            /\ em_ret' = [kind |-> "Ok"]
            /\ em_event' = None
       ELSE /\ em_pc' = "anomaly"
            /\ em_event' = Some(sample_event)
            /\ UNCHANGED em_ret
    /\ UNCHANGED <<em_config, h_ticks>>
    /\ UNCHANGED <<next_uuid, deVars, shVars, rmVars, anVars, adVars>>

\* The rest of an engine call of process_events; after the last one
\* process_events and poll_events return Ok(()).
process_events_stage(consumer) ==
    /\ em_pc = consumer
    /\ WriteLockFree(EngineLock(consumer))
    /\ em_pc' = NextStage(consumer)
    /\ h_fanout' = FanOut(consumer)
    /\ em_ret' = IF NextStage(consumer) = "ticker" THEN [kind |-> "Ok"] ELSE em_ret
    /\ UNCHANGED <<em_config, em_event, h_ticks>>

InitMonitor ==
    /\ em_config \in (IF engine = "monitor" THEN MonitorConfigs
                      ELSE {DefaultMonitorConfig})
    /\ em_pc = "ticker"
    /\ em_event = None
    /\ em_ret = [kind |-> "none"]
    /\ h_ticks = 0
    /\ h_fanout = << >>

TickerTick ==
    /\ ticker_tick
    /\ UNCHANGED <<mxVars, apiVars, read_ret, engine, now>>

PollEvents ==
    /\ \E event_type \in SampleEventTypes, connector \in SampleConnectors,
          payment_method \in SamplePaymentMethods, amount \in SampleAmounts :
          poll_events(generate_sample_event(event_type, connector,
                                            payment_method, amount))
    /\ UNCHANGED <<mxVars, apiVars, read_ret, engine, now>>

DispatchAnomaly ==
    /\ process_events_stage("anomaly")
    /\ analyze_event(Unwrap(em_event))
    /\ UNCHANGED <<mxVars, apiVars, read_ret, engine, now>>

DispatchAnalytics ==
    /\ process_events_stage("analytics")
    /\ process_event(Unwrap(em_event))
    /\ UNCHANGED <<mxVars, apiVars, read_ret, engine, now>>

DispatchHealing ==
    /\ process_events_stage("healing")
    /\ evaluate_event(Unwrap(em_event))
    /\ UNCHANGED <<mxVars, apiVars, read_ret, engine, now>>

\* The steps of the task that runs EventMonitor::start.
DispatchLoop ==
    TickerTick \/ PollEvents \/ DispatchAnomaly \/ DispatchAnalytics \/ DispatchHealing

\* The steps of the tasks the Self-Healing Engine spawned.
BackgroundTasks == RetryTask \/ SwitchTask

NextMonitor == DispatchLoop \/ BackgroundTasks

\* ========================================================== engine mutexes
\* The fields of an engine are parking_lot mutexes.  An operation is the
\* sequence of its lock() calls and of the ends of the scopes of the guards;
\* a thread executes one of them per step and waits at a lock() whose mutex
\* is held.  Where an operation branches, the path that takes every lock is
\* the one written down.

Lock(mutex) == [op |-> "lock", mutex |-> mutex]

Unlock(mutex) == [op |-> "unlock", mutex |-> mutex]

\* self_healing.rs:70-103, evaluate_event of a failed event: track_failure
\* (107) and should_heal_connector (144) each take and release the trackers,
\* heal_connector_failure (183) or retry_payment (234) the active map.
evaluate_event_locks ==
    <<Lock("connector_failures"), Unlock("connector_failures"),
      Lock("connector_failures"), Unlock("connector_failures"),
      Lock("active_actions"), Unlock("active_actions")>>

\* The mutant of complete_action_locks: the history is taken first.
complete_action_history_first ==
    <<Lock("action_history"), Lock("active_actions"),
      Unlock("active_actions"), Unlock("action_history")>>

\* self_healing.rs:278-292, complete_action: the history is taken inside
\* the scope of the guard of the active map.
complete_action_locks ==
    <<Lock("active_actions"), Lock("action_history"),
      Unlock("action_history"), Unlock("active_actions")>>

\* self_healing.rs:295-297
get_active_actions_locks == <<Lock("active_actions"), Unlock("active_actions")>>

\* self_healing.rs:300-303
get_action_history_locks == <<Lock("action_history"), Unlock("action_history")>>

\* self_healing.rs:306-336, get_statistics
healing_statistics_locks ==
    <<Lock("active_actions"), Lock("action_history"), Lock("connector_failures"),
      Unlock("connector_failures"), Unlock("action_history"),
      Unlock("active_actions")>>

\* impl SelfHealingService
HealingOperations ==
    [evaluate_event |-> evaluate_event_locks,
     complete_action |-> complete_action_locks,
     get_active_actions |-> get_active_actions_locks,
     get_action_history |-> get_action_history_locks,
     healing_get_statistics |-> healing_statistics_locks]

\* analytics.rs:119-203, process_event: four scopes, one after the other.
process_event_locks ==
    <<Lock("metrics"), Unlock("metrics"),
      Lock("connector_stats"), Unlock("connector_stats"),
      Lock("payment_method_stats"), Unlock("payment_method_stats"),
      Lock("time_series_data"), Unlock("time_series_data")>>

\* analytics.rs:206-277, get_summary: the three guards live to the end.
get_summary_locks ==
    <<Lock("metrics"), Lock("connector_stats"), Lock("payment_method_stats"),
      Unlock("payment_method_stats"), Unlock("connector_stats"), Unlock("metrics")>>

\* analytics.rs:281-338, predict
predict_locks == <<Lock("time_series_data"), Unlock("time_series_data")>>

\* analytics.rs:341-352, reset: the guard of the metrics lives to the end,
\* those of the two tables to the end of their statements.
reset_locks ==
    <<Lock("metrics"),
      Lock("connector_stats"), Unlock("connector_stats"),
      Lock("payment_method_stats"), Unlock("payment_method_stats"),
      Unlock("metrics")>>

\* analytics.rs:355-370, get_statistics
analytics_statistics_locks ==
    <<Lock("metrics"), Lock("connector_stats"), Lock("payment_method_stats"),
      Lock("time_series_data"),
      Unlock("time_series_data"), Unlock("payment_method_stats"),
      Unlock("connector_stats"), Unlock("metrics")>>

\* impl AnalyticsEngine
AnalyticsOperations ==
    [process_event |-> process_event_locks,
     get_summary |-> get_summary_locks,
     predict |-> predict_locks,
     reset |-> reset_locks,
     analytics_get_statistics |-> analytics_statistics_locks]

\* resource_manager.rs:74-111, evaluate_scaling: the metrics history (85),
\* is_in_cooldown (265) and the instance count (98), each in a scope of its
\* own.
evaluate_scaling_locks ==
    <<Lock("metrics_history"), Unlock("metrics_history"),
      Lock("last_scaling"), Unlock("last_scaling"),
      Lock("current_instances"), Unlock("current_instances")>>

\* resource_manager.rs:205-261, execute_scaling: three scopes.
execute_scaling_locks ==
    <<Lock("current_instances"), Unlock("current_instances"),
      Lock("scaling_history"), Unlock("scaling_history"),
      Lock("last_scaling"), Unlock("last_scaling")>>

\* resource_manager.rs:275-277
get_current_instances_locks ==
    <<Lock("current_instances"), Unlock("current_instances")>>

\* resource_manager.rs:280-283
get_scaling_history_locks == <<Lock("scaling_history"), Unlock("scaling_history")>>

\* resource_manager.rs:296-329, get_statistics: the two histories are held
\* to the end; the guard of the instance count is a temporary of the
\* returned struct expression and is alive while is_in_cooldown, called for
\* a later field, takes and releases last_scaling.
resource_statistics_locks ==
    <<Lock("scaling_history"), Lock("metrics_history"), Lock("current_instances"),
      Lock("last_scaling"), Unlock("last_scaling"),
      Unlock("current_instances"), Unlock("metrics_history"),
      Unlock("scaling_history")>>

\* impl ResourceManager
ResourceOperations ==
    [evaluate_scaling |-> evaluate_scaling_locks,
     execute_scaling |-> execute_scaling_locks,
     get_current_instances |-> get_current_instances_locks,
     get_scaling_history |-> get_scaling_history_locks,
     resource_get_statistics |-> resource_statistics_locks]

\* The operations of the three engines, by name.
Operations == HealingOperations @@ AnalyticsOperations @@ ResourceOperations

\* The threads that call into the engines.
Threads == 1..MaxThreads

\* The thread is in no operation.
Returned == [operation |-> "none", at |-> 0]

\* The instruction a thread executes next.
NextInstruction(thread) == Operations[mx_pc[thread].operation][mx_pc[thread].at]

\* The thread after its instruction: at the next one, or returned.
Proceed(thread) ==
    IF mx_pc[thread].at = Len(Operations[mx_pc[thread].operation]) THEN Returned
    ELSE [mx_pc[thread] EXCEPT !.at = @ + 1]

\* The mutexes a thread holds.
HeldBy(thread) == {mx_held[thread][i] : i \in 1..Len(mx_held[thread])}

\* The thread is at a lock() of a mutex that is held (parking_lot mutexes
\* are not reentrant: held by the thread itself counts).
Waiting(thread) ==
    /\ mx_pc[thread] # Returned
    /\ NextInstruction(thread).op = "lock"
    /\ \E holder \in Threads : NextInstruction(thread).mutex \in HeldBy(holder)

InitMutexes ==
    /\ mx_pc = [thread \in Threads |-> Returned]
    /\ mx_held = [thread \in Threads |-> << >>]

\* A thread calls an operation.
CallOperation ==
    /\ \E thread \in Threads, operation \in DOMAIN Operations :
          /\ mx_pc[thread] = Returned
          /\ mx_pc' = [mx_pc EXCEPT ![thread] = [operation |-> operation, at |-> 1]]
    /\ UNCHANGED <<mx_held, apiVars, read_ret, engine, now, next_uuid, deVars, shVars,
                   rmVars, anVars, adVars, emVars>>

\* mutex.lock() returns the guard once the mutex is free.
LockMutex ==
    /\ \E thread \in Threads :
          /\ mx_pc[thread] # Returned
          /\ NextInstruction(thread).op = "lock"
          /\ ~Waiting(thread)
          /\ mx_held' = [mx_held EXCEPT
                            ![thread] = Append(@, NextInstruction(thread).mutex)]
          /\ mx_pc' = [mx_pc EXCEPT ![thread] = Proceed(thread)]
    /\ UNCHANGED <<apiVars, read_ret, engine, now, next_uuid, deVars, shVars,
                   rmVars, anVars, adVars, emVars>>

\* A guard goes out of scope.
UnlockMutex ==
    /\ \E thread \in Threads :
          /\ mx_pc[thread] # Returned
          /\ NextInstruction(thread).op = "unlock"
          /\ mx_held' = [mx_held EXCEPT
                            ![thread] = SelectSeq(@, LAMBDA mutex :
                                            mutex # NextInstruction(thread).mutex)]
          /\ mx_pc' = [mx_pc EXCEPT ![thread] = Proceed(thread)]
    /\ UNCHANGED <<apiVars, read_ret, engine, now, next_uuid, deVars, shVars,
                   rmVars, anVars, adVars, emVars>>

\* Threads running operations of the engines side by side.
NextMutexes == CallOperation \/ LockMutex \/ UnlockMutex

\* ================================================================ HTTP API
\* A request runs as a task of its own, beside the task of the Event
\* Monitor.  A route is the sequence of its lock acquisitions, engine calls
\* and guard drops; the request task executes one instruction per step.

Acquire(lock, mode) == [op |-> "acquire", target |-> lock, mode |-> mode]

Call(method) == [op |-> "call", target |-> method, mode |-> "none"]

Drop(lock) == [op |-> "drop", target |-> lock, mode |-> "none"]

\* routes.rs:130-150, trigger_model_training
trigger_model_training ==
    <<Acquire("app_state", "read"), Acquire("decision_engine", "write"),
      Call("train_model"), Drop("decision_engine"), Drop("app_state")>>

\* routes.rs:153-170, generate_prediction
generate_prediction ==
    <<Acquire("app_state", "read"), Acquire("analytics", "read"),
      Call("predict"), Drop("analytics"), Drop("app_state")>>

\* routes.rs:173-197, the route evaluate_scaling
evaluate_scaling_route ==
    <<Acquire("app_state", "read"), Acquire("resource_manager", "read"),
      Call("evaluate_scaling"), Drop("resource_manager"), Drop("app_state")>>

\* configure_routes: the routes that call into an engine's operations.
Routes ==
    [trigger_model_training |-> trigger_model_training,
     generate_prediction |-> generate_prediction,
     evaluate_scaling |-> evaluate_scaling_route]

\* No request is being served.
Idle == [route |-> "idle", at |-> 0]

\* The instruction the request task executes next.
Instruction == Routes[api_pc.route][api_pc.at]

\* The request task after its instruction: the next one, or the response.
Advance ==
    IF api_pc.at = Len(Routes[api_pc.route]) THEN Idle
    ELSE [api_pc EXCEPT !.at = @ + 1]

InitRoutes ==
    /\ api_pc = Idle
    /\ api_held = {}
    /\ h_api_calls = 0

\* A request arrives.
ApiRequest ==
    /\ api_pc = Idle
    /\ h_api_calls < MaxApiCalls
    /\ h_api_calls' = h_api_calls + 1
    /\ \E route \in DOMAIN Routes : api_pc' = [route |-> route, at |-> 1]
    /\ UNCHANGED <<mxVars, api_held, read_ret, engine, now, next_uuid, deVars, shVars, rmVars,
                   anVars, adVars, emVars>>

\* state.read().await and <engine>.read() / .write(): the Event Monitor
\* holds an engine's lock within one step only, and AppState in read mode,
\* so the request task is never kept waiting here.
ApiAcquire ==
    /\ api_pc # Idle
    /\ Instruction.op = "acquire"
    /\ api_held' = api_held \cup {[lock |-> Instruction.target, mode |-> Instruction.mode]}
    /\ api_pc' = Advance
    /\ UNCHANGED <<mxVars, h_api_calls, read_ret, engine, now, next_uuid, deVars, shVars, rmVars,
                   anVars, adVars, emVars>>

\* A guard goes out of scope.
ApiDrop ==
    /\ api_pc # Idle
    /\ Instruction.op = "drop"
    /\ api_held' = {held \in api_held : held.lock # Instruction.target}
    /\ api_pc' = Advance
    /\ UNCHANGED <<mxVars, h_api_calls, read_ret, engine, now, next_uuid, deVars, shVars, rmVars,
                   anVars, adVars, emVars>>

ApiTrainModel ==
    /\ api_pc # Idle
    /\ Instruction = Call("train_model")
    /\ train_model
    /\ api_pc' = Advance
    /\ UNCHANGED <<mxVars, api_held, h_api_calls, read_ret, engine, now, emVars>>

ApiPredict ==
    /\ api_pc # Idle
    /\ Instruction = Call("predict")
    /\ \E draws \in [1..an_config.forecast_horizon_days -> RandomDraws] :
          predict("payment_volume", draws)
    /\ api_pc' = Advance
    /\ UNCHANGED <<mxVars, api_held, h_api_calls, read_ret, engine, now, emVars>>

ApiEvaluateScaling ==
    /\ api_pc # Idle
    /\ Instruction = Call("evaluate_scaling")
    /\ \E metrics \in MetricSamples : evaluate_scaling(metrics)
    /\ api_pc' = Advance
    /\ UNCHANGED <<mxVars, api_held, h_api_calls, read_ret, engine, now, emVars>>

\* The steps of the task that serves a request.
ApiTask ==
    ApiRequest \/ ApiAcquire \/ ApiDrop \/ ApiTrainModel \/ ApiPredict
       \/ ApiEvaluateScaling

NextRoutes == DispatchLoop \/ ApiTask

\* The engines process_events hands the event to.
Consumers == {"anomaly", "analytics", "healing"}

\* The calls of process_events so far in this tick that went to a consumer.
CallsTo(consumer) == {i \in 1..Len(h_fanout) : h_fanout[i].consumer = consumer}

\* A tick is over: the loop of start is back at the ticker.
TickOver == em_pc = "ticker" /\ h_ticks > 0

Launched == DOMAIN active_actions' \ DOMAIN active_actions

\* C13: the evaluate_event step that launches an action returns that action,
\* Pending, with its task spawned and not yet run; and the loop of start
\* can make its next step whatever the spawned tasks are doing.
C13_LaunchDoesNotWaitForTask ==
    /\ [][\A id \in Launched :
            /\ sh_ret' = Some(active_actions'[id])
            /\ active_actions'[id].status = "Pending"
            /\ id \in DOMAIN tasks' /\ id \notin DOMAIN tasks
            /\ tasks'[id].state = "running"
            /\ tasks'[id].attempt <= 1]_vars
    /\ []((em_pc # "ticker" \/ h_ticks < MaxTicks) => ENABLED DispatchLoop)

\* C13's case: the second tick is over while the retry task the first tick
\* spawned has not finished its first sleep.
C13_Witness ==
    /\ TickOver /\ h_ticks = 2
    /\ \E id \in DOMAIN tasks :
          /\ active_actions[id].target = <<"pay", 1>>
          /\ tasks[id].kind = "retry" /\ tasks[id].state = "running"
          /\ tasks[id].attempt = 1

\* C14: once the retry task of an action has used up its attempts, the
\* action eventually is out of the active map and in the history as Failed.
C14_ExhaustedRetryEndsInHistory ==
    \A id \in 1..MaxUuid :
        (id \in DOMAIN tasks /\ tasks[id].state = "exhausted") ~>
            (/\ id \notin DOMAIN active_actions
             /\ \E i \in 1..Len(action_history) :
                   /\ action_history[i].id = id
                   /\ action_history[i].status = "Failed")

\* A step is an evaluate_event call of the enabled engine on a failed event.
FailedEventStep ==
    /\ h_sh_events' = h_sh_events + 1
    /\ sh_config.enabled
    /\ Unwrap(h_sh_call'.event).status = "failed"

\* The types of the actions a step launched.
LaunchedTypes == {active_actions'[id].action_type : id \in Launched}

\* The error code of the event of the step is one should_retry_payment
\* refuses.
NonRetriable ==
    LET error_code == Unwrap(h_sh_call'.event).error_code
    IN  IsSome(error_code) /\
        Unwrap(error_code) \in {"invalid_card", "expired_card", "insufficient_funds"}

\* C15: an evaluate_event call on a failed event with a retriable error code
\* whose connector is marked failed, auto-switch being enabled, launches a
\* SwitchConnector action and a RetryPayment action.
C15_SwitchAndRetryBothLaunched ==
    [][(/\ FailedEventStep
        /\ sh_config.auto_switch_connectors
        /\ IsSome(Unwrap(h_sh_call'.event).connector)
        /\ IsFailed(connector_failures', Unwrap(Unwrap(h_sh_call'.event).connector))
        /\ ~NonRetriable) =>
          LaunchedTypes = {"SwitchConnector", "RetryPayment"}]_vars

\* C16: an evaluate_event call of the enabled engine on a failed event with
\* error code invalid_card, expired_card or insufficient_funds launches no
\* RetryPayment action; on a failed event with another error code or none
\* it launches exactly one RetryPayment action, and returns it, whenever it
\* launches no SwitchConnector action.
C16_RetryUnlessNonRetriable ==
    [][FailedEventStep =>
          /\ NonRetriable => "RetryPayment" \notin LaunchedTypes
          /\ (~NonRetriable /\ "SwitchConnector" \notin LaunchedTypes) =>
                /\ Cardinality(Launched) = 1
                /\ LaunchedTypes = {"RetryPayment"}
                /\ IsSome(sh_ret') /\ Unwrap(sh_ret').id \in Launched]_vars

\* C16's case: a failed event with insufficient_funds on a connector marked
\* failed has launched nothing, after an earlier failed event launched a
\* RetryPayment action.
C16_Witness ==
    /\ h_sh_call.op = "evaluate_event" /\ sh_config.enabled
    /\ EvaluatedEvent.status = "failed"
    /\ EvaluatedEvent.error_code = Some("insufficient_funds")
    /\ IsSome(EvaluatedEvent.connector)
    /\ IsFailed(connector_failures, Unwrap(EvaluatedEvent.connector))
    /\ sh_ret = None
    /\ \E id \in DOMAIN active_actions : active_actions[id].action_type = "RetryPayment"

\* C17: a complete_action call for an active id takes that action, and no
\* other, out of the active map and pushes it to the history with the given
\* status and message; a call for any other id changes neither; and a step
\* that is not a complete_action call for an action leaves it active.
C17_CompleteActionMovesToHistory ==
    [][/\ h_sh_call'.op = "complete_action" =>
            LET id == h_sh_call'.action_id
            IN  IF id \in DOMAIN active_actions
                THEN /\ DOMAIN active_actions' = DOMAIN active_actions \ {id}
                     /\ \A i \in DOMAIN active_actions' :
                           active_actions'[i] = active_actions[i]
                     /\ Len(action_history') >= 1
                     /\ action_history'[Len(action_history')] =
                           [active_actions[id] EXCEPT
                              !.status = h_sh_call'.status,
                              !.result_message = Some(h_sh_call'.result)]
                     /\ h_completed' = Append(h_completed, action_history'[Len(action_history')])
                ELSE UNCHANGED <<active_actions, action_history>>
       /\ \A id \in DOMAIN active_actions :
            \/ id \in DOMAIN active_actions' /\ active_actions'[id] = active_actions[id]
            \/ h_sh_call'.op = "complete_action" /\ h_sh_call'.action_id = id]_vars

\* C17's case: complete_action has just moved an active action to the
\* history as Failed while another action stays active.
C17_Witness ==
    /\ h_sh_call.op = "complete_action"
    /\ h_sh_call.status = "Failed"
    /\ h_sh_call.action_id \notin DOMAIN active_actions
    /\ Len(action_history) >= 1
    /\ action_history[Len(action_history)].id = h_sh_call.action_id
    /\ action_history[Len(action_history)].status = "Failed"
    /\ action_history[Len(action_history)].result_message = Some("done")
    /\ DOMAIN active_actions # {}

\* 1 if the condition holds, else 0.
Count(condition) == IF condition THEN 1 ELSE 0

\* The sample and the instance count of the last analyze_metrics call.
ScoredMetrics == h_rm_call.metrics

ScoredInstances == h_rm_call.current_instances

\* The up-score and the down-score as the scoring rule states them.
UpScore ==
    2 * Count(ScoredMetrics.cpu_usage > rm_config.cpu_scale_up_threshold)
    + 2 * Count(ScoredMetrics.memory_usage > rm_config.memory_scale_up_threshold)
    + Count(ScoredMetrics.request_rate > 1000)
    + Count(ScoredMetrics.error_rate > 5)
    + 2 * Count(ScoredMetrics.queue_depth > 100)

DownScore ==
    Count(ScoredMetrics.cpu_usage < rm_config.cpu_scale_down_threshold)
    + Count(ScoredMetrics.memory_usage < rm_config.memory_scale_down_threshold)
    + Count(ScoredMetrics.request_rate < 100)

\* The decision of the last analyze_metrics call.
Decision == <<Unwrap(rm_ret).direction, Unwrap(rm_ret).target_instances>>

\* The scoring rule with the direction given for an up-score of 2 or more.
RuleDecision(direction_up) ==
    IF UpScore >= 2
    THEN <<direction_up, Min(ScoredInstances + 1, rm_config.max_instances)>>
    ELSE IF DownScore >= 2 /\ ScoredInstances > rm_config.min_instances
    THEN <<"Down", Max(ScoredInstances - 1, rm_config.min_instances)>>
    ELSE <<"NoChange", ScoredInstances>>

\* C18 as stated: analyze_metrics decides Up, with target current + 1 clamped
\* to max_instances, whenever the up-score is 2 or more; else Down, with
\* target current - 1 clamped to min_instances, when the down-score is 2 or
\* more and current > min_instances; else NoChange with target current.
C18_ScalesUpWheneverUpScoreReached ==
    h_rm_call.op = "analyze_metrics" => Decision = RuleDecision("Up")

\* C18, corrected: as above, but with an up-score of 2 or more the direction
\* is Up only when current is below max_instances, and NoChange at
\* max_instances.
C18_ScalesUpBelowMaxInstances ==
    h_rm_call.op = "analyze_metrics" =>
        Decision = RuleDecision(IF ScoredInstances < rm_config.max_instances
                                THEN "Up" ELSE "NoChange")

\* C18's case: a deep queue alone gave an up-score of 2 at max_instances,
\* and the decision is NoChange with the target at max_instances.
C18_Witness ==
    /\ h_rm_call.op = "analyze_metrics"
    /\ UpScore = 2 /\ ScoredMetrics.queue_depth > 100
    /\ DownScore >= 2
    /\ ScoredInstances = rm_config.max_instances
    /\ Decision = <<"NoChange", rm_config.max_instances>>

\* The recommendation an execute_scaling step was given.
Executed == h_recs \ h_recs'

\* What execute_scaling alone may change.
ScalingState == <<current_instances, last_scaling, scaling_history>>

\* C19: an evaluate_scaling step leaves the live instance count, the
\* last-scaling time and the scaling history as they were; a step that
\* changes one of them is an execute_scaling step; execute_scaling of an Up
\* or Down recommendation sets the count to the target, pushes exactly one
\* ScalingEvent (from the old count to the target) and sets the last-scaling
\* time to now, and execute_scaling of a NoChange recommendation changes
\* none of the three.
C19_OnlyExecuteScalingMutates ==
    [][/\ h_rm_evals' # h_rm_evals => UNCHANGED ScalingState
       /\ ScalingState' # ScalingState => Executed # {}
       /\ \A recommendation \in Executed :
            IF recommendation.direction = "NoChange"
            THEN UNCHANGED ScalingState
            ELSE /\ current_instances' = recommendation.target_instances
                 /\ last_scaling' = Some(now)
                 /\ Len(h_scaling_log') = Len(h_scaling_log) + 1
                 /\ LET event == h_scaling_log'[Len(h_scaling_log')]
                    IN  /\ event.direction = recommendation.direction
                        /\ event.from_instances = current_instances
                        /\ event.to_instances = recommendation.target_instances
                        /\ scaling_history'[Len(scaling_history')] = event
                        /\ Len(scaling_history') <= Len(scaling_history) + 1]_vars

\* C19's case: execute_scaling has just applied a Down recommendation after
\* an Up one, and a later evaluate_scaling result is still to be executed.
C19_Witness ==
    /\ h_rm_call.op = "execute_scaling"
    /\ Len(h_scaling_log) = 2
    /\ h_scaling_log[1].direction = "Up"
    /\ h_scaling_log[2].direction = "Down"
    /\ current_instances = h_scaling_log[2].to_instances
    /\ last_scaling = Some(now)
    /\ h_rm_evals >= 2

\* C20: with its enable flag off, analyze_event returns None and leaves the
\* windows and the anomaly history as they were; process_event returns Ok
\* and leaves the counters, the statistics and the forecast buffer as they
\* were; evaluate_event returns None and leaves the failure trackers, the
\* active actions, the history and the spawned tasks as they were;
\* evaluate_scaling returns None and leaves the metrics history, the
\* instance count, the last-scaling time and the scaling history as they
\* were.
C20_DisabledEngineDoesNothing ==
    [][/\ (h_ad_events' # h_ad_events /\ ~ad_config.enabled) =>
            /\ ad_ret' = None
            /\ UNCHANGED <<payment_volumes, success_rates, average_amounts, anomalies>>
       /\ (h_an_events' # h_an_events /\ ~an_config.enabled) =>
            /\ an_ret' = [kind |-> "Ok", value |-> "unit"]
            /\ UNCHANGED <<an_metrics, connector_stats, payment_method_stats,
                           time_series_data>>
       /\ (h_sh_events' # h_sh_events /\ ~sh_config.enabled) =>
            /\ sh_ret' = None
            /\ UNCHANGED <<connector_failures, active_actions, action_history, tasks>>
       /\ (h_rm_evals' # h_rm_evals /\ ~rm_config.enable_auto_scaling) =>
            /\ rm_ret' = None
            /\ UNCHANGED <<metrics_history, current_instances, last_scaling,
                           scaling_history>>]_vars

\* C20's case: the disabled Self-Healing Engine was given a failed event of a
\* connector, returned None and holds no tracker and no action.
C20_Witness ==
    /\ ~sh_config.enabled
    /\ h_sh_call.op = "evaluate_event"
    /\ EvaluatedEvent.status = "failed" /\ IsSome(EvaluatedEvent.connector)
    /\ h_sh_events = 2
    /\ sh_ret = None
    /\ connector_failures = << >> /\ active_actions = << >>

\* C21: a predict call with analytics.enable_predictions off returns a result
\* and not an error, however many points are buffered.
C21_DisabledPredictIsNotAnError ==
    (h_an_call.op = "predict" /\ ~an_config.enable_predictions) =>
        an_ret.kind # "Err"

\* C22: every analyze_event call returns at most one result: none when no
\* detector fired, otherwise one of the fired results, whose score no fired
\* result exceeds; the returned result, and nothing else, is appended to the
\* anomaly history.
C22_ReturnsHighestScoreOnly ==
    [][h_ad_events' = h_ad_events + 1 =>
          /\ Len(ad_ret') <= 1
          /\ h_detected' = << >> =>
                /\ ad_ret' = None
                /\ anomalies' = anomalies
                /\ h_anomaly_log' = h_anomaly_log
          /\ h_detected' # << >> =>
                /\ IsSome(ad_ret')
                /\ \E i \in 1..Len(h_detected') : h_detected'[i] = Unwrap(ad_ret')
                /\ \A i \in 1..Len(h_detected') :
                      RatLeq(h_detected'[i].score, Unwrap(ad_ret').score)
                /\ h_anomaly_log' = Append(h_anomaly_log, Unwrap(ad_ret'))
                /\ anomalies' = MostRecent(h_anomaly_log', AnomalyHistoryCap)]_vars

\* C22's case: two detectors fired on one event with different scores, and the
\* history holds the higher one last.
C22_Witness ==
    /\ h_ad_call.op = "analyze_event"
    /\ Len(h_detected) >= 2
    /\ \E i \in 1..Len(h_detected) : RatLess(h_detected[i].score, Unwrap(ad_ret).score)
    /\ anomalies # << >>
    /\ anomalies[Len(anomalies)] = Unwrap(ad_ret)

\* The make_routing_decision step missed the cache: a decision was built.
CacheMissStep ==
    /\ h_de_call'.op = "make_routing_decision"
    /\ next_uuid' = next_uuid + 1

\* The adjusted score of a catalog connector for the payment, from the
\* counters held when the call was made.
AdjustedScore(connector, payment) ==
    score_connector(performance_cache, connector, payment).score

\* C23: every decision built on a cache miss recommends a catalog connector
\* whose adjusted score no catalog connector exceeds, has that score as its
\* confidence, within [0,1], and lists the other four catalog connectors as
\* alternatives, each with its adjusted score, in descending score order.
C23_MissRanksCatalogByScore ==
    [][CacheMissStep =>
          LET payment == Unwrap(h_de_call'.payment)
              decision == Unwrap(de_ret')
              alternatives == decision.alternatives
              catalog == {Connectors[i] : i \in 1..Len(Connectors)}
          IN  /\ decision.recommended_connector \in catalog
              /\ decision.confidence
                    = AdjustedScore(decision.recommended_connector, payment)
              /\ \A c \in catalog :
                    RatLeq(AdjustedScore(c, payment), decision.confidence)
              /\ RatLeq(RatZero, decision.confidence)
              /\ RatLeq(decision.confidence, RatOne)
              /\ Len(alternatives) = 4
              /\ {alternatives[i].connector : i \in 1..4}
                    = catalog \ {decision.recommended_connector}
              /\ \A i \in 1..4 :
                    alternatives[i].score
                       = AdjustedScore(alternatives[i].connector, payment)
              /\ \A i \in 1..3 :
                    RatLeq(alternatives[i + 1].score, alternatives[i].score)]_vars

\* C23's case: a decision built after a success was recorded for checkout
\* recommends checkout, ahead of stripe, which leads the catalog.
C23_Witness ==
    /\ h_de_call.op = "make_routing_decision"
    /\ IsSome(de_ret)
    /\ Unwrap(de_ret).id = next_uuid
    /\ Unwrap(de_ret).recommended_connector = "checkout"
    /\ Unwrap(de_ret).alternatives[1].connector = "stripe"
    /\ RatLess(Unwrap(de_ret).alternatives[1].score, Unwrap(de_ret).confidence)

\* The payment ids the decision cache holds.
CachedIds == LruKeys(decision_cache)

\* The cached payment id that was routed least recently, a hit counting as
\* much as an insert.
LeastRecentlyRouted ==
    h_use_order[CHOOSE i \in 1..Len(h_use_order) :
                   /\ h_use_order[i] \in CachedIds
                   /\ \A j \in 1..(i - 1) : h_use_order[j] \notin CachedIds]

\* C24: the decision cache never holds more than its capacity; a
\* make_routing_decision call for a payment id that is not cached inserts
\* it, evicting from a full cache the least recently routed id and nothing
\* else, a hit evicts nothing, and a decision that stays cached is the same
\* decision after every step.
C24_BoundedLruCacheOfFixedDecisions ==
    /\ [](Len(decision_cache) <= DecisionCacheCap)
    /\ [][/\ \A id \in CachedIds \cap CachedIds' :
                LruPeek(decision_cache', id) = LruPeek(decision_cache, id)
          /\ h_de_call'.op = "make_routing_decision" =>
                LET id == Unwrap(h_de_call'.payment).payment_id
                IN  CachedIds' =
                       IF id \in CachedIds THEN CachedIds
                       ELSE IF Len(decision_cache) < DecisionCacheCap
                       THEN CachedIds \cup {id}
                       ELSE (CachedIds \ {LeastRecentlyRouted}) \cup {id}
          /\ h_de_call'.op # "make_routing_decision" =>
                decision_cache' = decision_cache]_vars

\* C24's case: the full cache evicted a payment id that was inserted after
\* an id it still holds, because that older id had been hit in between.
C24_Witness ==
    /\ Len(decision_cache) = DecisionCacheCap
    /\ \E e \in h_evicted \ CachedIds : \E i \in 1..Len(decision_cache) :
          /\ decision_cache[i].value.id < Unwrap(h_first_decision[e]).id
          /\ Some(decision_cache[i].value) = h_first_decision[decision_cache[i].key]

\* The update_performance calls made so far for a connector.
Observations(connector) ==
    SelectSeq(h_observations, LAMBDA o : o.connector = connector)

RECURSIVE LatencySum(_)
\* The latencies of a sequence of observations, summed.
LatencySum(observations) ==
    IF observations = << >> THEN 0
    ELSE Head(observations).latency_ms + LatencySum(Tail(observations))

\* The score the claim gives a connector: from 80 successes in 100
\* transactions of 500 ms when update_performance was never called for it,
\* otherwise from the calls made for it and nothing else.
ClaimedScore(connector, payment) ==
    LET observations == Observations(connector)
        total == Len(observations)
        successes == Len(SelectSeq(observations, LAMBDA o : o.success))
        rate == IF total = 0 THEN Rat(80, 100) ELSE Rat(successes, total)
        latency == IF total = 0 THEN Rat(50000, 100)
                   ELSE Rat(LatencySum(observations), total)
        latency_score == RatSub(RatOne, RatMin(RatMul(latency, Rat(1, 1000)), RatOne))
        base == RatAdd(RatMul(rate, Rat(7, 10)), RatMul(latency_score, Rat(3, 10)))
    IN  [score |-> apply_payment_adjustments(base, connector, payment),
         expected_success_rate |-> rate]

\* C25: in every decision built on a cache miss, a connector for which
\* update_performance was never called is scored with success rate 0.8 (80
\* successes, 20 failures, 100 transactions), and a connector with recorded
\* observations is scored from its recorded counters only.
C25_UnobservedConnectorScoredFromPrior ==
    [][CacheMissStep =>
          LET payment == Unwrap(h_de_call'.payment)
              decision == Unwrap(de_ret')
          IN  /\ decision.confidence
                    = ClaimedScore(decision.recommended_connector, payment).score
              /\ \A i \in 1..Len(decision.alternatives) :
                    LET alternative == decision.alternatives[i]
                        claimed == ClaimedScore(alternative.connector, payment)
                    IN  /\ alternative.score = claimed.score
                        /\ alternative.expected_success_rate
                              = claimed.expected_success_rate
                        /\ Observations(alternative.connector) = << >> =>
                              alternative.expected_success_rate = Rat(8, 10)]_vars

\* C25's case: a decision built after one failure was recorded for checkout
\* scores checkout with success rate 0 and worldpay, never observed, with 0.8.
C25_Witness ==
    /\ h_de_call.op = "make_routing_decision"
    /\ IsSome(de_ret)
    /\ Unwrap(de_ret).id = next_uuid
    /\ Observations("checkout") # << >>
    /\ Observations("worldpay") = << >>
    /\ \E i, j \in 1..Len(Unwrap(de_ret).alternatives) :
          LET alternatives == Unwrap(de_ret).alternatives
          IN  /\ alternatives[i].connector = "checkout"
              /\ alternatives[i].expected_success_rate = RatZero
              /\ alternatives[j].connector = "worldpay"
              /\ alternatives[j].expected_success_rate = Rat(8, 10)

\* An update_performance call for the connector can be made in this state.
CanUpdatePerformance(connector) ==
    ENABLED (\E success \in BOOLEAN, latency_ms \in PerfLatencies :
                update_performance(connector, success, latency_ms))

\* C26: make_routing_decision leaves the performance counters of every
\* connector as they are, storing no prior; update_performance can be called
\* for any connector in every state, routed before or not, and changes the
\* counters of that connector only, by the one observation, leaving the
\* decision cache as it is.
C26_UpdatePerformanceIsSoleMutator ==
    /\ [](h_perf_updates < PerfUpdateLimit =>
             \A connector \in PerfConnectors : CanUpdatePerformance(connector))
    /\ [][/\ h_de_call'.op = "make_routing_decision" =>
                performance_cache' = performance_cache
          /\ h_de_call'.op = "update_performance" =>
                LET call == h_observations'[Len(h_observations')]
                    others == DOMAIN performance_cache \ {call.connector}
                    old == IF call.connector \in DOMAIN performance_cache
                           THEN performance_cache[call.connector]
                           ELSE [success_count |-> 0, failure_count |-> 0,
                                 total_latency_ms |-> 0, total_transactions |-> 0]
                    new == performance_cache'[call.connector]
                IN  /\ decision_cache' = decision_cache
                    /\ DOMAIN performance_cache' = others \cup {call.connector}
                    /\ \A c \in others : performance_cache'[c] = performance_cache[c]
                    /\ new.success_count
                          = old.success_count + (IF call.success THEN 1 ELSE 0)
                    /\ new.failure_count
                          = old.failure_count + (IF call.success THEN 0 ELSE 1)
                    /\ new.total_latency_ms = old.total_latency_ms + call.latency_ms
                    /\ new.total_transactions = old.total_transactions + 1]_vars

\* C26's case: update_performance was called for a connector that was never
\* routed to, while another connector has counters and a decision is cached.
C26_Witness ==
    /\ h_de_call.op = "update_performance"
    /\ h_observations[Len(h_observations)].connector = "paypal"
    /\ DOMAIN performance_cache = {"checkout", "paypal"}
    /\ decision_cache # << >>

\* The scores routing would give every catalog connector for every payment,
\* from the given performance counters.
RoutingScores(cache) ==
    [payment \in RoutePayments |->
        [i \in 1..Len(Connectors) |-> score_connector(cache, Connectors[i], payment)]]

\* C27: train_model fails with the insufficient-data error when the training
\* buffer holds fewer than min_training_samples points and succeeds
\* otherwise; either way the performance counters, the decision cache and
\* the training buffer are as before, and so are the routing scores.
C27_TrainModelChecksBufferOnly ==
    [][h_de_call'.op = "train_model" =>
          /\ IF Len(training_buffer) < de_config.min_training_samples
             THEN train_ret'.kind = "Err" /\ train_ret'.error = "InsufficientData"
             ELSE train_ret'.kind = "Ok"
          /\ performance_cache' = performance_cache
          /\ decision_cache' = decision_cache
          /\ training_buffer' = training_buffer
          /\ RoutingScores(performance_cache') = RoutingScores(performance_cache)]_vars

\* C27's case: train_model succeeded on a buffer of exactly
\* min_training_samples points, with counters recorded and a decision cached.
C27_Witness ==
    /\ h_de_call.op = "train_model"
    /\ de_config.min_training_samples = 2
    /\ Len(training_buffer) = 2
    /\ train_ret.kind = "Ok"
    /\ performance_cache # << >>
    /\ decision_cache # << >>

\* ========================================================= history readers
\* No reader was called yet.
NoRead == [op |-> "none"]

\* The limits the readers are given: none, some and more than a history holds.
ReadLimits == 0..(Max(Max(AnomalyHistoryCap, ActionHistoryCap), ScalingHistoryCap) + 1)

\* The mutant of MostRecentFirst: the entries are taken from the front.
OldestFirst(history, limit) == SubSeq(history, 1, Min(limit, Len(history)))

\* history.iter().rev().take(limit)
MostRecentFirst(history, limit) ==
    [i \in 1..Min(limit, Len(history)) |-> history[Len(history) - i + 1]]

\* format!("{:?}", direction): the name of the variant, as text.
DirectionText(direction) ==
    CASE direction = "Up" -> "Up"
      [] direction = "Down" -> "Down"
      [] direction = "NoChange" -> "NoChange"

\* ScalingEventInfo { .. } of get_scaling_history.
ScalingEventInfo(event) ==
    [timestamp |-> event.timestamp,
     direction |-> DirectionText(event.direction),
     from_instances |-> event.from_instances,
     to_instances |-> event.to_instances,
     reason |-> event.reason]

\* AnomalyDetector::get_anomalies
get_anomalies(limit) ==
    /\ read_ret' = [op |-> "get_anomalies", limit |-> limit,
                    entries |-> MostRecentFirst(anomalies, limit)]
    /\ UNCHANGED <<mxVars, apiVars, engine, now, next_uuid, deVars, shVars, rmVars, anVars, adVars,
                   emVars>>

\* SelfHealingService::get_action_history
get_action_history(limit) ==
    /\ read_ret' = [op |-> "get_action_history", limit |-> limit,
                    entries |-> MostRecentFirst(action_history, limit)]
    /\ UNCHANGED <<mxVars, apiVars, engine, now, next_uuid, deVars, shVars, rmVars, anVars, adVars,
                   emVars>>

\* ResourceManager::get_scaling_history
get_scaling_history(limit) ==
    LET recent == MostRecentFirst(scaling_history, limit)
    IN  /\ read_ret' = [op |-> "get_scaling_history", limit |-> limit,
                        entries |-> [i \in 1..Len(recent) |-> ScalingEventInfo(recent[i])]]
        /\ UNCHANGED <<mxVars, apiVars, engine, now, next_uuid, deVars, shVars, rmVars, anVars, adVars,
                       emVars>>

GetAnomalies == \E limit \in ReadLimits : get_anomalies(limit)

GetActionHistory == \E limit \in ReadLimits : get_action_history(limit)

GetScalingHistory == \E limit \in ReadLimits : get_scaling_history(limit)

\* The readers beside the calls that fill the history each of them reads.
NextReaders ==
    \/ engine = "get_anomalies" /\ (AnalyzeEvent \/ GetAnomalies)
    \/ engine = "get_action_history" /\ (EvaluateEvent \/ CompleteAction \/ GetActionHistory)
    \/ engine = "get_scaling_history" /\ (NextResource \/ GetScalingHistory)

\* A reader was called in this step.
ReadStep == read_ret' # read_ret

\* The entries that were appended to the history the last reader call read,
\* all of them, oldest first, in the form the reader returns them.
AppendedEntries(op) ==
    CASE op = "get_anomalies" -> h_anomaly_log
      [] op = "get_action_history" -> h_completed
      [] op = "get_scaling_history" ->
            [i \in 1..Len(h_scaling_log) |-> ScalingEventInfo(h_scaling_log[i])]

\* The history the reader call read.
HistoryRead(op) ==
    CASE op = "get_anomalies" -> anomalies
      [] op = "get_action_history" -> action_history
      [] op = "get_scaling_history" -> scaling_history

EngineLocks ==
    {"decision_engine", "anomaly_detector", "self_healing", "analytics",
     "resource_manager"}

\* The request task is about to take an engine's lock with another engine's
\* lock in hand.
AcquiresAcrossEngines ==
    /\ api_pc # Idle
    /\ Instruction.op = "acquire"
    /\ Instruction.target \in EngineLocks
    /\ \E held \in api_held : held.lock \in EngineLocks \ {Instruction.target}

\* The lock of the application state is held in write mode.
AppStateWritten ==
    \E held \in api_held : held.lock = "app_state" /\ held.mode # "read"

\* A dispatch tick stands before an engine whose lock a request holds: its
\* write() does not return until the request drops the guard.
DispatchBlocked ==
    /\ em_pc \in Consumers
    /\ ~WriteLockFree(EngineLock(em_pc))

\* C29: no task holds one engine's lock while it acquires another's, the
\* lock of the application state is only ever taken in read mode, and no
\* training, prediction or scaling-evaluation request keeps a dispatch tick
\* waiting.
C29_ApiCallsNeverBlockDispatch ==
    /\ ~AcquiresAcrossEngines
    /\ ~AppStateWritten
    /\ ~DispatchBlocked

\* ---------------------------------------------------------------- C30
\* Every tracker's failed flag is set exactly when its consecutive-failure
\* count has reached failure_threshold.
FlagFollowsCount ==
    \A c \in DOMAIN connector_failures :
        connector_failures[c].is_failed <=>
            connector_failures[c].consecutive_failures >= sh_config.failure_threshold

\* The step is an evaluate_event call of the enabled engine on an event of
\* the given status for the connector.
EvaluatesFor(c, status) ==
    /\ h_sh_call'.op = "evaluate_event"
    /\ sh_config.enabled
    /\ Unwrap(h_sh_call'.event).status = status
    /\ Unwrap(h_sh_call'.event).connector = Some(c)

\* What a step does to the consecutive-failure count of a connector: a
\* failed event for it adds one, a succeeded event for it sets it to 0, and
\* nothing else changes it.
CountFollowsEvents ==
    \A c \in HealingConnectors :
        ConsecutiveFailures(connector_failures', c) =
            IF EvaluatesFor(c, "failed")
            THEN ConsecutiveFailures(connector_failures, c) + 1
            ELSE IF EvaluatesFor(c, "succeeded") THEN 0
            ELSE ConsecutiveFailures(connector_failures, c)

\* C30: with failure_threshold >= 1, a tracked connector's failed flag is
\* set exactly when its consecutive-failure count is at least
\* failure_threshold; the count grows by one with each failed event for the
\* connector and returns to 0 only on a succeeded event for it.
C30_FailedFlagTracksStreak ==
    /\ [](sh_config.failure_threshold >= 1 => FlagFollowsCount)
    /\ [][sh_config.failure_threshold >= 1 => CountFollowsEvents]_vars

\* C30's case: under a threshold of 2 a third failed event in a row for a
\* connector has just been evaluated; the count stands at 3, past the
\* threshold, and the flag is still set.
C30_Witness ==
    /\ h_sh_call.op = "evaluate_event"
    /\ sh_config.enabled
    /\ sh_config.failure_threshold = 2
    /\ EvaluatedEvent.status = "failed"
    /\ IsSome(EvaluatedEvent.connector)
    /\ ConsecutiveFailures(connector_failures, Unwrap(EvaluatedEvent.connector)) = 3
    /\ IsFailed(connector_failures, Unwrap(EvaluatedEvent.connector))

\* ---------------------------------------------------------------- C31
\* The success-rate detector fired on the last analyze_event call.
HighFailureRateFired ==
    \E i \in 1..Len(h_detected) : h_detected[i].anomaly_type = "HighFailureRate"

\* The mean of the points of the success-rate window before its most recent
\* 10 minus the mean of the most recent 10.
SuccessRateDrop ==
    LET len == Len(success_rates)
    IN  RatSub(Rat(SumFrom(SubSeq(success_rates, 1, len - 10), 1), len - 10),
               Rat(SumFrom(SubSeq(success_rates, len - 9, len), 1), 10))

\* C31: after an analyze_event call of the enabled engine, with at least 20
\* points in the success-rate window (the point of the event included) the
\* success-rate detector has fired HighFailureRate exactly when the mean of
\* the points before the most recent 10 minus the mean of the most recent 10
\* exceeds 0.2, and with fewer than 20 points it has not fired.
C31_FiresOnDropAboveOneFifth ==
    (h_ad_call.op = "analyze_event" /\ ad_config.enabled) =>
        IF Len(success_rates) >= 20
        THEN HighFailureRateFired <=> RatLess(Rat(2, 10), SuccessRateDrop)
        ELSE ~HighFailureRateFired

\* ---------------------------------------------------------------- C32
\* The fraud score of an event as a sum of its two parts.
ClaimedFraudScore(event) ==
    RatAdd(IF event.amount # None /\ event.amount[1] > 100000 THEN Rat(3, 10)
           ELSE RatZero,
           IF event.error_code = Some("card_declined") THEN Rat(2, 10) ELSE RatZero)

\* The results of the fraud detector among those of the last call.
PotentialFrauds ==
    SelectSeq(h_detected, LAMBDA result : result.anomaly_type = "PotentialFraud")

\* C32: on every analyze_event call of the enabled engine the fraud
\* detector produces a PotentialFraud result exactly when fraud detection is
\* enabled and 0.3 for an amount above 100000 plus 0.2 for the error code
\* card_declined is strictly greater than the configured sensitivity; the
\* result carries that sum as its score and the payment id of the event,
\* whatever the engine has seen before.
C32_FraudScoreAboveSensitivity ==
    (h_ad_call.op = "analyze_event" /\ ad_config.enabled) =>
        /\ Len(PotentialFrauds) =
              IF /\ ad_config.enable_fraud_detection
                 /\ RatLess(ad_config.sensitivity, ClaimedFraudScore(AnalyzedEvent))
              THEN 1 ELSE 0
        /\ \A i \in 1..Len(PotentialFrauds) :
              /\ PotentialFrauds[i].score = ClaimedFraudScore(AnalyzedEvent)
              /\ PotentialFrauds[i].entity_id = AnalyzedEvent.payment_id

\* C32's case: with a sensitivity of 0.2 a declined payment of an ordinary
\* amount is not reported although one of a large amount was reported
\* before it.
C32_Witness ==
    /\ h_ad_call.op = "analyze_event"
    /\ ad_config.enabled /\ ad_config.enable_fraud_detection
    /\ ad_config.sensitivity = Rat(2, 10)
    /\ AnalyzedEvent.error_code = Some("card_declined")
    /\ AnalyzedEvent.amount = Some(100000)
    /\ PotentialFrauds = << >>
    /\ Len(h_anomaly_log) = 1
    /\ h_anomaly_log[1].anomaly_type = "PotentialFraud"
    /\ h_anomaly_log[1].score = Rat(5, 10)

\* ---------------------------------------------------------------- C33
\* The results of the volume detector in a sequence of results.
VolumeResults(results) ==
    SelectSeq(results,
              LAMBDA result : result.anomaly_type \in {"VolumeSpike", "VolumeDrop"})

\* C33: whenever the volume window holds at least 10 points the ratio of
\* recent to baseline volume is exactly 1, and no analyze_event call
\* produces, returns or records a VolumeSpike or a VolumeDrop result.
C33_VolumeRatioIsOne ==
    /\ Len(payment_volumes) >= 10 => VolumeRatio(payment_volumes) = RatOne
    /\ VolumeResults(h_detected) = << >>
    /\ VolumeResults(ad_ret) = << >>
    /\ VolumeResults(h_anomaly_log) = << >>

\* C33's case: the volume window is full and has evicted a point, and the
\* call on it has produced a result of another detector.
C33_Witness ==
    /\ h_ad_call.op = "analyze_event"
    /\ ad_config.enabled
    /\ Len(payment_volumes) = MaxPoints
    /\ Len(h_volume_log) > MaxPoints
    /\ h_detected # << >>

\* ---------------------------------------------------------------- C34
\* What a step may do to a retry task: a task that is over stays as it is;
\* a running task either ends, with its attempt and delay as they were, or
\* goes on to the next attempt, within max_retry_attempts, with its delay
\* multiplied by retry_backoff_multiplier and cut to whole seconds.
RetryTaskTurn(before, after) ==
    \/ after = before
    \/ /\ before.state = "running"
       /\ after.state \in {"succeeded", "exhausted"}
       /\ after.state = "exhausted" => before.attempt = sh_config.max_retry_attempts
       /\ after = [before EXCEPT !.state = after.state]
    \/ /\ before.state = "running"
       /\ before.attempt < sh_config.max_retry_attempts
       /\ LET product == RatMul(Rat(before.delay, 1), sh_config.retry_backoff_multiplier)
          IN  after = [before EXCEPT !.attempt = @ + 1,
                                     !.delay = product[1] \div product[2]]

\* The steps of the retry tasks: a task starts before its first attempt
\* with a wait of initial_retry_delay_seconds, every step is a turn of the
\* task, and a call of the engine leaves the tasks that exist as they are.
RetryTaskSteps ==
    \A id \in DOMAIN tasks' :
        IF id \in DOMAIN tasks
        THEN /\ RetryTaskTurn(tasks[id], tasks'[id])
             /\ (h_sh_events' # h_sh_events \/ active_actions' # active_actions) =>
                   tasks'[id] = tasks[id]
        ELSE tasks'[id] = [kind |-> "retry", attempt |-> 1,
                           delay |-> sh_config.initial_retry_delay_seconds,
                           state |-> "running"]

\* C34: the task of a RetryPayment action makes at most max_retry_attempts
\* attempts, waits initial_retry_delay_seconds before the first and the
\* wait multiplied by retry_backoff_multiplier, cut to whole seconds, after
\* each attempt that failed, stops at the first attempt that succeeds, is
\* not stopped by anything else, and always comes to its end.
C34_RetryTaskTerminates ==
    /\ [][RetryTaskSteps]_vars
    /\ [](\A id \in DOMAIN tasks : tasks[id].attempt <= sh_config.max_retry_attempts)
    /\ \A id \in 1..MaxUuid :
          (id \in DOMAIN tasks) ~> (id \in DOMAIN tasks /\ tasks[id].state # "running")

\* C34's case: under a multiplier of 1.5 a task has waited 3, 4 and 6
\* seconds, has failed its third and last attempt and is over, and its
\* action has been completed by a call that did not stop it.
C34_Witness ==
    /\ sh_config.retry_backoff_multiplier = Rat(3, 2)
    /\ \E id \in DOMAIN tasks :
          /\ tasks[id] = [kind |-> "retry", attempt |-> 3, delay |-> 6,
                          state |-> "exhausted"]
          /\ id \notin DOMAIN active_actions
          /\ \E i \in 1..Len(action_history) : action_history[i].id = id

\* ---------------------------------------------------------------- C35
\* The step is a process_event call of the enabled engine.
ProcessEventStep ==
    /\ h_an_events' = h_an_events + 1
    /\ an_config.enabled

\* The buffer the claim describes after a process_event call on the event:
\* the points buffered before and the point of the event, in this order,
\* without those that are not newer than now minus the retention period.
ClaimedBuffer(event) ==
    SelectSeq(Append(time_series_data,
                     [timestamp |-> event.timestamp,
                      value |-> IF event.amount = None THEN 0 ELSE event.amount[1]]),
              LAMBDA point : point.timestamp > now - an_config.retention_days * 86400)

\* Every process_event call of the enabled engine leaves the claimed buffer.
BufferAfterProcessEvent ==
    [][ProcessEventStep => time_series_data' = ClaimedBuffer(h_an_call'.event)]_vars

\* No buffered point is older than the retention period.
NoPointBeyondRetention ==
    \A i \in 1..Len(time_series_data) :
        time_series_data[i].timestamp >= now - an_config.retention_days * 86400

\* C35 as stated: process_event leaves the claimed buffer, and no buffered
\* point is ever older than the retention period.
C35_NoBufferedPointEverBeyondRetention ==
    BufferAfterProcessEvent /\ []NoPointBeyondRetention

\* C35: after every process_event call of the enabled engine the forecast
\* buffer holds, in insertion order, the points buffered before and one new
\* point with the event's timestamp and amount (0 without an amount), less
\* every point whose timestamp is not newer than now minus retention_days;
\* so no buffered point is older than the retention period right after a
\* call, while between calls the buffered points age in place.
C35_BufferPrunedOnProcessEvent ==
    /\ BufferAfterProcessEvent
    /\ [][ProcessEventStep => NoPointBeyondRetention']_vars
    /\ [][~ProcessEventStep => time_series_data' = time_series_data]_vars

\* C35's case: of two events, each stamped with the time of its call, the
\* second call has pruned the point of the first, a retention period old
\* or more, and kept its own.
C35_Witness ==
    /\ h_an_call.op = "process_event"
    /\ an_config.enabled
    /\ h_an_events = 2
    /\ an_metrics.total_amount = 50
    /\ time_series_data = <<[timestamp |-> now, value |-> 10]>>

\* What predict answers in the current state: the error it returns, or "Ok"
\* for a forecast.
PredictOutcome ==
    IF ~an_config.enable_predictions THEN "Computation"
    ELSE IF Len(time_series_data) < MinPredictionPoints THEN "InsufficientData"
    ELSE "Ok"

\* The outcome of the call that has just returned.
ReturnedOutcome == IF an_ret.kind = "Err" THEN an_ret.error ELSE an_ret.kind

\* A reset: the counters and the total amount are zero and the two tables
\* empty after it, the forecast buffer is as before, and so is what predict
\* would answer.
ResetStep ==
    h_an_call'.op = "reset" =>
        /\ an_metrics'.total_payments = 0
        /\ an_metrics'.successful_payments = 0
        /\ an_metrics'.failed_payments = 0
        /\ an_metrics'.total_amount = 0
        /\ connector_stats' = << >>
        /\ payment_method_stats' = << >>
        /\ time_series_data' = time_series_data
        /\ PredictOutcome' = PredictOutcome

\* C39: reset zeroes the payment counters and the total amount and empties
\* the per-connector and per-method tables, but leaves the forecast buffer
\* unchanged, so predict has the same outcome (insufficient data or not)
\* right before and right after a reset.
C39_ResetKeepsForecastBuffer ==
    /\ [][ResetStep]_vars
    /\ [](h_an_call.op = "predict" => ReturnedOutcome = PredictOutcome)

\* C39's case: a reset of an engine that has counted payments and holds
\* enough points for a forecast.
C39_Witness ==
    /\ h_an_call.op = "reset"
    /\ an_config.enable_predictions
    /\ h_an_events > 0
    /\ an_metrics.total_payments = 0
    /\ Len(time_series_data) >= MinPredictionPoints

\* The ids of the actions evaluate_event has created: each one spawned its
\* task.
CreatedActions == DOMAIN tasks

\* The ids of the actions in a sequence of actions.
IdsOf(actions) == {actions[i].id : i \in 1..Len(actions)}

\* The actions complete_action has moved out of the active map that the
\* capped history has dropped since.
EvictedActions == IdsOf(h_completed) \ IdsOf(action_history)

\* The active map is keyed by the ids of its actions, all of them Pending.
ActiveArePending ==
    \A id \in DOMAIN active_actions :
       active_actions[id].id = id /\ active_actions[id].status = "Pending"

\* evaluate_event adds to the active map exactly the action it returns, a
\* new one, and nothing when it returns none; no other step adds to the map.
ActiveGrowsByReturned ==
    IF h_sh_events' # h_sh_events
    THEN IF IsSome(sh_ret')
         THEN /\ Unwrap(sh_ret').id \notin DOMAIN active_actions
              /\ active_actions' = InsertAction(active_actions, Unwrap(sh_ret'))
         ELSE active_actions' = active_actions
    ELSE DOMAIN active_actions' \subseteq DOMAIN active_actions

\* C36 as stated: every created action is in exactly one of the active map
\* and the history at every moment.
C36_EveryActionActiveOrInHistory ==
    /\ [](\A id \in CreatedActions :
             (id \in DOMAIN active_actions) # (id \in IdsOf(action_history)))
    /\ []ActiveArePending
    /\ [][ActiveGrowsByReturned]_vars

\* C36: every created action is in exactly one of the active map, the
\* history and the completed actions the capped history has dropped; the
\* history holds each of its actions once; every active action is Pending;
\* and evaluate_event adds to the active map exactly the action it returns.
C36_ActiveOrCompletedNeverBoth ==
    /\ [](\A id \in CreatedActions :
             /\ ~(id \in DOMAIN active_actions /\ id \in IdsOf(h_completed))
             /\ id \in DOMAIN active_actions \cup IdsOf(action_history)
                          \cup EvictedActions)
    /\ [](Cardinality(IdsOf(h_completed)) = Len(h_completed))
    /\ [](DOMAIN active_actions \cup IdsOf(h_completed) \subseteq CreatedActions)
    /\ []ActiveArePending
    /\ [][ActiveGrowsByReturned]_vars

\* C36's case: every action evaluate_event created has been completed, the
\* history is full and has dropped the one completed first.
C36_Witness ==
    /\ h_sh_call.op = "complete_action"
    /\ Cardinality(CreatedActions) > ActionHistoryCap
    /\ active_actions = << >>
    /\ Len(action_history) = ActionHistoryCap
    /\ EvictedActions = {h_completed[1].id}

\* The event moves the count by one instance in its direction.
MovesByOne(event) ==
    /\ event.direction = "Up" => event.to_instances = event.from_instances + 1
    /\ event.direction = "Down" => event.to_instances = event.from_instances - 1

\* C37: every ScalingEvent execute_scaling has recorded, whatever the order
\* in which recommendations were evaluated and applied, moves the live
\* instance count by exactly one instance in its direction.
C37_EveryScalingEventMovesByOne ==
    \A i \in 1..Len(h_scaling_log) : MovesByOne(h_scaling_log[i])

\* The counters of a cache entry are those of the calls made for its
\* connector: one count per outcome, the number of calls, their latencies
\* summed.
CountersOfCalls(connector) ==
    LET perf == performance_cache[connector]
        observations == Observations(connector)
    IN  /\ perf.connector = connector
        /\ perf.success_count + perf.failure_count = perf.total_transactions
        /\ perf.total_transactions = Len(observations)
        /\ perf.success_count = Len(SelectSeq(observations, LAMBDA o : o.success))
        /\ perf.total_latency_ms = LatencySum(observations)

\* C38: for every connector in the performance cache, success_count +
\* failure_count = total_transactions, total_transactions is the number of
\* update_performance calls made for that connector and total_latency_ms the
\* sum of their latencies; an entry, once there, is never removed.
C38_CountersAreThoseOfTheCalls ==
    /\ [](\A connector \in DOMAIN performance_cache : CountersOfCalls(connector))
    /\ [][DOMAIN performance_cache \subseteq DOMAIN performance_cache']_vars

\* C38's case: after a routing decision, one connector has a success and a
\* failure of different latencies recorded and another connector has an
\* entry of its own.
C38_Witness ==
    /\ h_de_call.op = "make_routing_decision"
    /\ DOMAIN performance_cache = {"checkout", "paypal"}
    /\ performance_cache["checkout"].success_count = 1
    /\ performance_cache["checkout"].failure_count = 1
    /\ performance_cache["checkout"].total_latency_ms = 400
    /\ performance_cache["paypal"].total_transactions = 1

\* The order in which the mutexes of each engine are to be taken.
HealingOrder == <<"active_actions", "action_history", "connector_failures">>

AnalyticsOrder ==
    <<"metrics", "connector_stats", "payment_method_stats", "time_series_data">>

ResourceOrder ==
    <<"scaling_history", "metrics_history", "current_instances", "last_scaling">>

\* The mutexes a thread holds are those of one engine, taken in its order.
TakenInOrder(held, order) ==
    \E places \in [1..Len(held) -> 1..Len(order)] :
       /\ \A i \in 1..Len(held) : order[places[i]] = held[i]
       /\ \A i, j \in 1..Len(held) : i < j => places[i] < places[j]

\* Threads of which each waits for a mutex that one of them holds.
Deadlocked(threads) ==
    /\ threads # {}
    /\ \A thread \in threads :
          /\ Waiting(thread)
          /\ \E holder \in threads : NextInstruction(thread).mutex \in HeldBy(holder)

\* C40: inside each engine nested acquisitions of its mutexes follow one
\* fixed order (self-healing: active actions, history, failure trackers;
\* analytics: metrics, connector stats, method stats, forecast buffer;
\* resource: scaling history, metrics history, instance count, last
\* scaling), and operations running side by side never deadlock: no thread
\* ever waits for a mutex in a circle of waiting threads, itself included.
C40_MutexesTakenInOneOrder ==
    /\ \A thread \in Threads :
          \/ TakenInOrder(mx_held[thread], HealingOrder)
          \/ TakenInOrder(mx_held[thread], AnalyticsOrder)
          \/ TakenInOrder(mx_held[thread], ResourceOrder)
    /\ \A threads \in SUBSET Threads : ~Deadlocked(threads)

\* C40's case: get_statistics of the Resource Engine holds all four of its
\* mutexes while another thread, inside an operation, waits for one of them.
C40_Witness ==
    \E thread, other \in Threads :
       /\ thread # other
       /\ mx_held[thread] = ResourceOrder
       /\ Waiting(other)
       /\ NextInstruction(other).mutex \in HeldBy(thread)
       /\ mx_pc[other].at > 1

\* ========================================================== specification
Init ==
    /\ engine \in Engines
    /\ now = 0
    /\ next_uuid = 0
    /\ read_ret = NoRead
    /\ InitRoutes
    /\ InitMutexes
    /\ InitDecision
    /\ InitHealing
    /\ InitResource
    /\ InitAnalytics
    /\ InitAnomaly
    /\ InitMonitor

Next ==
    \/ engine = "decision" /\ NextDecision
    \/ engine = "healing" /\ NextHealing
    \/ engine = "resource" /\ NextResource
    \/ engine = "analytics" /\ NextAnalytics
    \/ engine = "anomaly" /\ NextAnomaly
    \/ engine = "monitor" /\ NextMonitor
    \/ engine = "analyze_metrics" /\ NextAnalyzeMetrics

Spec == Init /\ [][Next]_vars

InitDecisionOnly == Init /\ engine = "decision"

SpecDecision == InitDecisionOnly /\ [][NextDecision]_vars

InitTrainingOnly == Init /\ engine = "training"

SpecTraining == InitTrainingOnly /\ [][NextTraining]_vars

InitHealingOnly == Init /\ engine = "healing"

SpecHealing == InitHealingOnly /\ [][NextHealing]_vars

InitResourceOnly == Init /\ engine = "resource"

SpecResource == InitResourceOnly /\ [][NextResource]_vars

InitAnalyticsOnly == Init /\ engine = "analytics"

SpecAnalytics == InitAnalyticsOnly /\ [][NextAnalytics]_vars

InitAnomalyOnly == Init /\ engine = "anomaly"

SpecAnomaly == InitAnomalyOnly /\ [][NextAnomaly]_vars

InitAnalyzeMetricsOnly == Init /\ engine = "analyze_metrics"

SpecAnalyzeMetrics == InitAnalyzeMetricsOnly /\ [][NextAnalyzeMetrics]_vars

InitMonitorOnly == Init /\ engine = "monitor"

SpecMonitor == InitMonitorOnly /\ [][NextMonitor]_vars

\* The runtime polls every task that can make a step, and a timer that was
\* set fires: the loop of start and the spawned tasks are scheduled fairly.
FairMonitor == WF_vars(DispatchLoop) /\ WF_vars(BackgroundTasks)

SpecMonitorFair == InitMonitorOnly /\ [][NextMonitor]_vars /\ FairMonitor

InitReadersOnly ==
    Init /\ engine \in {"get_anomalies", "get_action_history", "get_scaling_history"}

SpecReaders == InitReadersOnly /\ [][NextReaders]_vars

InitSuccessRateOnly == Init /\ engine = "success_rate"

SpecSuccessRate == InitSuccessRateOnly /\ [][NextAnomaly]_vars

InitFraudOnly == Init /\ engine = "fraud"

SpecFraud == InitFraudOnly /\ [][NextAnomaly]_vars

InitRetryOnly == Init /\ engine = "retry"

\* A sleep of the retry task ends: the timer fires and the runtime polls
\* the task.
FairRetry == WF_vars(RetryTask)

SpecRetryFair == InitRetryOnly /\ [][NextRetry]_vars /\ FairRetry

InitRetentionOnly == Init /\ engine = "retention"

SpecRetention == InitRetentionOnly /\ [][NextRetention]_vars

InitPerformanceOnly == Init /\ engine = "performance"

SpecPerformance == InitPerformanceOnly /\ [][NextPerformance]_vars

InitMutexesOnly == Init /\ engine = "mutexes"

SpecMutexes == InitMutexesOnly /\ [][NextMutexes]_vars

InitRoutesOnly == Init /\ engine = "routes"

SpecRoutes == InitRoutesOnly /\ [][NextRoutes]_vars

=============================================================================
